---------------------------- MODULE Spec2Model ----------------------------
(***************************************************************************)
(* Verification model of the code-vizualizer static-analysis pipeline:     *)
(*   - the call extractor's traversal (codeParser.ts, extractFunctionCalls)*)
(*   - the parse entry point with its three-tier fallback                  *)
(*     (codeParser.ts, parseTypeScriptCode)                                *)
(*   - the graph builder (graphBuilder.ts) and the layout engine           *)
(*     (layoutEngine.ts)                                                   *)
(*                                                                         *)
(* Names are sequences of one-character strings, so that the string        *)
(* operations of the code (template literals, includes, replace, split)    *)
(* are computed and not assumed.                                           *)
(***************************************************************************)
EXTENDS Integers, Sequences, FiniteSets, Bags, TLC

VARIABLES
    \* ---- call extractor traversal (extractFunctionCalls) ----
    ast,              \* the syntax tree being analysed (preorder node list)
    functionNames,    \* names returned by extractFunctions for ast
    idx,              \* next node of ast the traversal will enter
    open,             \* nodes entered and not yet exited, innermost first
    currentFunction,  \* the tracker of extractFunctionCalls (<<>> is null)
    calls,            \* FunctionCall records pushed so far
    \* ---- parseTypeScriptCode ----
    code,             \* the argument of parseTypeScriptCode
    pc,               \* the statement parseTypeScriptCode is at
    attempts,         \* the calls of parse() made so far, with their outcome
    parsed,           \* the local `ast` of parseTypeScriptCode
    result,           \* the ParsedCodeResult being filled in
    \* ---- createFunctionEdges ----
    edgeCalls,        \* the argument `calls` of createFunctionEdges
    edges,            \* the Edge[] it returned
    edgePc,           \* "ready" before the call, "done" after it
    \* ---- buildReactFlowGraph ----
    parsedData,       \* the argument of buildReactFlowGraph
    graph,            \* the GraphData of the first call
    graphAgain,       \* the GraphData of a second call on the same argument
    graphPc,          \* "ready", "built" (one call made), "rebuilt" (two)
    \* ---- layout engine ----
    layoutInput,      \* the nodes and edges handed to a layout entry point
    layoutOutput,     \* the Node[] it returned
    layoutEntry,      \* "ready", then the name of the entry point called
    \* ---- filterGraph and simplifyGraph ----
    transformInput,   \* the GraphData handed to filterGraph or simplifyGraph
    transformFilter,  \* the GraphFilter handed to filterGraph
    transformOutput,  \* the GraphData returned
    transformEntry,   \* "ready", then the name of the function called
    \* ---- extractFunctions ----
    visitedPaths,     \* the paths of the nodes extractFunctions visits, in traversal order
    extracted,        \* the FunctionData[] extractFunctions returned
    extractPc,        \* "ready" before the call, "done" after it
    \* ---- createFunctionNode ----
    nodeArgument,     \* the argument of createFunctionNode
    functionNode,     \* the Node it returned
    nodePc,           \* "ready" before the call, "done" after it
    \* ---- two invocations of extractFunctionCalls ----
    reqAst,           \* the tree each invocation traverses
    reqIdx,           \* next node each traversal will enter
    reqOpen,          \* nodes each traversal has entered and not yet exited
    trackers,         \* the currentFunction variable of each invocation
    reqCalls,         \* the calls array of each invocation
    reqPc,            \* "ready", "traversing" or "done", for each invocation
    \* ---- POST /api/parse-code ----
    now,              \* Date.now(), in milliseconds
    rateLimitMap,     \* client IP -> [count, resetTime]
    admitted,         \* client IP -> the times at which its requests passed checkRateLimit
    response,         \* the answer to the latest request, with the steps the handler took
    \* ---- the Home page with its URLInput ----
    urlInput,         \* the state of URLInput: url, status, error
    home,             \* the state of Home: analysisResult, parseResult, parseError, analysisStatus
    run,              \* the analysis run of URLInput: where it is and what validation and fetch did
    reported,         \* the arguments of the calls of onStatusChange, in order
    analyzed,         \* the arguments of the calls of onAnalyze, with the statuses reported before each
    parseRequest,     \* the request Home sent to /api/parse-code: "none", "pending" or "settled"
    afterReset,       \* handleReset has run and no analysis was started since
    activations       \* how often the Analyze button was activated

callVars == <<ast, functionNames, idx, open, currentFunction, calls>>

parseVars == <<code, pc, attempts, parsed, result>>

edgeVars == <<edgeCalls, edges, edgePc>>

graphVars == <<parsedData, graph, graphAgain, graphPc>>

layoutVars == <<layoutInput, layoutOutput, layoutEntry>>

transformVars == <<transformInput, transformFilter, transformOutput, transformEntry>>

extractVars == <<visitedPaths, extracted, extractPc>>

nodeVars == <<nodeArgument, functionNode, nodePc>>

requestVars == <<reqAst, reqIdx, reqOpen, trackers, reqCalls, reqPc>>

routeVars == <<now, rateLimitMap, admitted, response>>

pageVars == <<urlInput, home, run, reported, analyzed, parseRequest, afterReset, activations>>

vars == <<callVars, parseVars, edgeVars, graphVars, layoutVars, transformVars, extractVars, nodeVars, requestVars, routeVars, pageVars>>

\* what the actions of one part of the program leave alone
notCallVars == <<parseVars, edgeVars, graphVars, layoutVars, transformVars, extractVars, nodeVars, requestVars, routeVars, pageVars>>

notParseVars == <<callVars, edgeVars, graphVars, layoutVars, transformVars, extractVars, nodeVars, requestVars, routeVars, pageVars>>

notEdgeVars == <<callVars, parseVars, graphVars, layoutVars, transformVars, extractVars, nodeVars, requestVars, routeVars, pageVars>>

notGraphVars == <<callVars, parseVars, edgeVars, layoutVars, transformVars, extractVars, nodeVars, requestVars, routeVars, pageVars>>

notLayoutVars == <<callVars, parseVars, edgeVars, graphVars, transformVars, extractVars, nodeVars, requestVars, routeVars, pageVars>>

notTransformVars == <<callVars, parseVars, edgeVars, graphVars, layoutVars, extractVars, nodeVars, requestVars, routeVars, pageVars>>

notExtractVars == <<callVars, parseVars, edgeVars, graphVars, layoutVars, transformVars, nodeVars, requestVars, routeVars, pageVars>>

notNodeVars == <<callVars, parseVars, edgeVars, graphVars, layoutVars, transformVars, extractVars, requestVars, routeVars, pageVars>>

notRequestVars == <<callVars, parseVars, edgeVars, graphVars, layoutVars, transformVars, extractVars, nodeVars, routeVars, pageVars>>

notRouteVars == <<callVars, parseVars, edgeVars, graphVars, layoutVars, transformVars, extractVars, nodeVars, requestVars, pageVars>>

notPageVars == <<callVars, parseVars, edgeVars, graphVars, layoutVars, transformVars, extractVars, nodeVars, requestVars, routeVars>>

----------------------------------------------------------------------------
(* Bounds of the model *)

MaxNodes == 3

\* nodes of the trees the parser hands to parseTypeScriptCode
MaxParseNodes == 2

----------------------------------------------------------------------------
(* Strings *)

NoName == <<>>

Range(s) == {s[i] : i \in DOMAIN s}

Includes(s, ch) == \E i \in DOMAIN s : s[i] = ch

\* `${a}.${b}`
Dotted(a, b) == a \o <<".">> \o b

\* `callback (${n})`
CallbackName(n) == <<"c","a","l","l","b","a","c","k"," ","(">> \o n \o <<")">>

IdentNames == {<<"f">>, <<"g">>}

ClassNames == {<<"C">>}

----------------------------------------------------------------------------
(* Values of parseTypeScriptCode's variables before anything is assigned *)

NoTree == [tier |-> 0, tree |-> <<>>]

EmptyResult == [functions |-> <<>>, calls |-> <<>>, errors |-> <<>>,
                metadata |-> [totalFunctions |-> 0, totalCalls |-> 0]]

IdleCode == [type |-> "undefined", length |-> 0]

\* values of the graph builder's variables before anything is assigned
NoParsedData == [functions |-> <<>>, calls |-> <<>>]

NoGraph == [nodes |-> <<>>, edges |-> <<>>]

\* the values of createFunctionNode's argument and result before the call
NoFunctionData ==
    [name |-> <<>>, parameters |-> <<>>, returnType |-> <<>>,
     async |-> FALSE, exported |-> FALSE]

NoNode == [id |-> <<>>]

\* a GraphFilter: an optional field is <<>> when absent (undefined) and the
\* one-element sequence of its value when present
NoFilter ==
    [showExported |-> <<>>, showAsync |-> <<>>, showMethods |-> <<>>,
     minComplexity |-> <<>>, maxComplexity |-> <<>>]

\* no parse outcome: parseTypeScriptCode was not reached or threw
NoParseResult == [errors |-> <<>>, functions |-> <<>>, reached |-> FALSE]

\* null
Null == "null"

\* a text typed as URL, with what `new URL(text)` makes of it
Url(text, parses, protocol, extension) ==
    [text |-> text, parses |-> parses, protocol |-> protocol, extension |-> extension]

\* useState(initialUrl), useState('idle'), useState(null) of URLInput
InitialInput == [url |-> Url("", FALSE, "", ""), status |-> "idle", error |-> Null]

\* the four useState of Home; handleReset sets the same values
InitialHome ==
    [analysisResult |-> Null, parseResult |-> Null, parseError |-> Null,
     analysisStatus |-> "idle"]

\* handleAnalyze of URLInput has not been entered
NoRun == [at |-> "none", validation |-> "none", fetch |-> "none"]

\* no request has been answered
NoResponse ==
    [status |-> 0, error |-> "", steps |-> <<>>, client |-> <<>>,
     parseResult |-> NoParseResult, thrown |-> "", startTime |-> 0]

----------------------------------------------------------------------------
(* Syntax trees.  A tree is the list of its nodes in traversal (pre-)order; *)
(* depth 1 nodes are the statements of the Program, and the parent of a    *)
(* node is the nearest earlier node that is one level less deep.           *)
(*   FunctionDeclaration  id = its name, NoName for `export default        *)
(*                        function () {}`                                  *)
(*   FunctionExpression   a function or arrow expression; binding = the    *)
(*                        identifier of the VariableDeclarator that is its *)
(*                        parent, NoName when the parent is anything else  *)
(*   ClassDeclaration     id = the class name                              *)
(*   ClassExpression      id = the class name, NoName for `class {}`       *)
(*   ClassMethod          id = the identifier key                          *)
(*   CallExpression       callee = "Identifier" (id()), "ThisMember"       *)
(*                        (this.id()), "IdentMember" (obj.id()) or "Other";*)
(*                        its children are its arguments, in order         *)

Node(k, i, b, c, o, d) ==
    [kind |-> k, id |-> i, binding |-> b, callee |-> c, obj |-> o, depth |-> d]

\* the identifiers each kind of node draws its name from
DeclIds == IdentNames \cup {NoName}

BindingIds == IdentNames \cup {NoName}

MethodIds == IdentNames

NodeShapes(d) ==
         {Node("FunctionDeclaration", n, NoName, "", NoName, d) : n \in DeclIds}
    \cup {Node("FunctionExpression", NoName, b, "", NoName, d) : b \in BindingIds}
    \cup {Node("ClassDeclaration", c, NoName, "", NoName, d) : c \in ClassNames}
    \cup {Node("ClassMethod", n, NoName, "", NoName, d) : n \in MethodIds}
    \cup {Node("CallExpression", n, NoName, "Identifier", NoName, d) : n \in IdentNames}
    \cup {Node("CallExpression", n, NoName, "ThisMember", NoName, d) : n \in MethodIds}
    \cup {Node("CallExpression", n, NoName, "IdentMember", c, d) : n \in MethodIds, c \in ClassNames}
    \cup {Node("CallExpression", NoName, NoName, "Other", NoName, d)}

FunctionLike == {"FunctionDeclaration", "FunctionExpression", "ClassMethod"}

IsFunctionLike(n) == n.kind \in FunctionLike

IsCall(n) == n.kind = "CallExpression"

Max(S) == CHOOSE x \in S : \A y \in S : y <= x

\* index of the parent of a node at depth d placed after the first n nodes
\* of t; 0 is the Program
ParentIdx(t, n, d) ==
    IF d = 1 THEN 0 ELSE Max({j \in 1..n : t[j].depth = d - 1})

ParentOf(t, i) == ParentIdx(t, i - 1, t[i].depth)

\* where the grammar allows a node: pk is the kind of the parent
AllowedUnder(pk, n) ==
    CASE n.kind = "ClassMethod" -> pk \in {"ClassDeclaration", "ClassExpression"}
      [] n.kind = "FunctionExpression" /\ n.binding = NoName ->
            pk \in FunctionLike \cup {"CallExpression"}
      [] n.kind = "CallExpression" ->
            pk \in FunctionLike \cup {"Program", "CallExpression"}
      [] OTHER -> pk \in FunctionLike \cup {"Program"}

KindAt(t, i) == IF i = 0 THEN "Program" ELSE t[i].kind

\* nd may follow the nodes of t in traversal order
MayFollow(t, nd) ==
    /\ nd.depth <= (IF t = <<>> THEN 1 ELSE t[Len(t)].depth + 1)
    /\ AllowedUnder(KindAt(t, ParentIdx(t, Len(t), nd.depth)), nd)

RECURSIVE TreesOfLen(_)
TreesOfLen(n) ==
    IF n = 0 THEN {<<>>}
    ELSE LET shapes == UNION {NodeShapes(d) : d \in 1..n}
             cand   == TreesOfLen(n - 1) \X shapes
         IN  {Append(c[1], c[2]) : c \in {x \in cand : MayFollow(x[1], x[2])}}

\* path.parentPath chain of node i: i, its parent, ..., up to a child of Program
RECURSIVE PathOf(_, _)
PathOf(t, i) ==
    IF i = 0 THEN <<>> ELSE <<i>> \o PathOf(t, ParentOf(t, i))

\* the children of node i, in order
Children(t, i) ==
    {j \in 1..Len(t) : j > i /\ ParentOf(t, j) = i}

----------------------------------------------------------------------------
(* codeParser.ts helpers *)

\* a mutant of getClassNameOn: class expressions are passed over
RECURSIVE getClassNameOn_DeclarationsOnly(_, _)
getClassNameOn_DeclarationsOnly(t, path) ==
    IF path = <<>> THEN NoName
    ELSE IF t[Head(path)].kind = "ClassDeclaration" /\ t[Head(path)].id # NoName
         THEN t[Head(path)].id
         ELSE getClassNameOn_DeclarationsOnly(t, Tail(path))

\* getClassName(path): walk path, parentPath, ... for a class declaration or
\* class expression with an id
RECURSIVE getClassNameOn(_, _)
getClassNameOn(t, path) ==
    IF path = <<>> THEN NoName
    ELSE IF t[Head(path)].kind \in {"ClassDeclaration", "ClassExpression"}
            /\ t[Head(path)].id # NoName
         THEN t[Head(path)].id
         ELSE getClassNameOn(t, Tail(path))

getClassName(t, i) == getClassNameOn(t, PathOf(t, i))

\* getFunctionName(node, path); NoName is null
getFunctionName(t, i) ==
    LET node == t[i] IN
    IF node.kind = "FunctionDeclaration" /\ node.id # NoName THEN node.id
    ELSE IF node.kind = "ClassMethod"
         THEN LET className == getClassName(t, i) IN
              IF className # NoName THEN Dotted(className, node.id) ELSE node.id
    ELSE IF node.binding # NoName THEN node.binding
    ELSE NoName

\* what the visitors of extractFunctions push when they reach node i
FunctionsAt(t, i) ==
    LET node == t[i]
        args == Children(t, i)
    IN
    CASE node.kind = "FunctionDeclaration" ->
            IF node.id = NoName THEN <<>> ELSE <<node.id>>
      [] node.kind = "FunctionExpression" ->
            \* pushed by the VariableDeclarator visitor of its parent
            IF node.binding = NoName THEN <<>> ELSE <<node.binding>>
      [] node.kind = "ClassMethod" ->
            LET className == getClassName(t, i) IN
            <<IF className # NoName THEN Dotted(className, node.id) ELSE node.id>>
      [] node.kind = "CallExpression" ->
            IF /\ node.callee \in {"Identifier", "ThisMember", "IdentMember"}
               /\ args # {}
               /\ t[i + 1].kind = "FunctionExpression"
            THEN CASE node.callee = "Identifier" -> <<CallbackName(node.id)>>
                   [] node.callee = "IdentMember" ->
                        <<CallbackName(Dotted(node.obj, node.id))>>
                   [] OTHER ->
                        <<CallbackName(Dotted(<<"o","b","j","e","c","t">>, node.id))>>
            ELSE <<>>
      [] OTHER -> <<>>

RECURSIVE extractFunctionsFrom(_, _)
extractFunctionsFrom(t, i) ==
    IF i > Len(t) THEN <<>>
    ELSE FunctionsAt(t, i) \o extractFunctionsFrom(t, i + 1)

\* extractFunctions(ast): the names of the FunctionData records, in order
extractFunctions(t) == extractFunctionsFrom(t, 1)

\* the callee name the CallExpression visitor resolves; NoName is null
calledFunction(t, i) ==
    LET node == t[i] IN
    CASE node.callee = "Identifier" -> node.id
      [] node.callee = "ThisMember" ->
            LET className == getClassName(t, i) IN
            IF className # NoName THEN Dotted(className, node.id) ELSE NoName
      [] node.callee = "IdentMember" -> Dotted(node.obj, node.id)
      [] OTHER -> NoName

\* a mutant of CallRecords: the check against functionNames is dropped
CallRecords_NoNameCheck(t, i, cur, names) ==
    IF cur = NoName THEN <<>>
    ELSE IF calledFunction(t, i) # NoName
         THEN <<[caller |-> cur, callee |-> calledFunction(t, i), site |-> i]>>
         ELSE <<>>

\* the CallExpression visitor of extractFunctionCalls at node i: the records
\* it pushes; site stands for the call's location
CallRecords(t, i, cur, names) ==
    IF cur = NoName THEN <<>>
    ELSE IF calledFunction(t, i) # NoName /\ calledFunction(t, i) \in Range(names)
         THEN <<[caller |-> cur, callee |-> calledFunction(t, i), site |-> i]>>
         ELSE <<>>

\* enter(path) of the function-like visitor: the tracker after it
TrackerOnEnter(t, i, cur) ==
    IF getFunctionName(t, i) # NoName THEN getFunctionName(t, i) ELSE cur

\* a mutant of TrackerOnExit: the tracker is left as it is
TrackerOnExit_KeepsTracker(cur) == cur

\* exit() of the function-like visitor: the tracker after it
TrackerOnExit(cur) == NoName

\* traverse(ast, visitors) of extractFunctionCalls from the point where node
\* i is next, op are the open nodes, cur the tracker and acc the records
RECURSIVE WalkCalls(_, _, _, _, _, _)
WalkCalls(t, names, i, op, cur, acc) ==
    IF i > Len(t) /\ op = <<>> THEN acc
    ELSE IF op # <<>> /\ (IF i > Len(t) THEN TRUE
                          ELSE t[i].depth <= t[Head(op)].depth)
         THEN WalkCalls(t, names, i, Tail(op),
                        IF IsFunctionLike(t[Head(op)]) THEN TrackerOnExit(cur) ELSE cur,
                        acc)
         ELSE WalkCalls(t, names, i + 1, <<i>> \o op,
                        IF IsFunctionLike(t[i]) THEN TrackerOnEnter(t, i, cur) ELSE cur,
                        IF IsCall(t[i]) THEN acc \o CallRecords(t, i, cur, names) ELSE acc)

\* extractFunctionCalls(ast, functionNames)
extractFunctionCalls(t, names) == WalkCalls(t, names, 1, <<>>, NoName, <<>>)

----------------------------------------------------------------------------
(* codeParser.ts: the exported flag.  A path is the list of nodes from the  *)
(* Program down to the visited node.  The helpers are handed either a       *)
(* NodePath or a plain node: a NodePath has the fields type (its node's),   *)
(* node, parent (a node) and parentPath (a NodePath); a plain node has a    *)
(* type and none of the other three.                                        *)

AstNode(type, name, init) == [type |-> type, name |-> name, init |-> init]

NodePath(chain) == [kind |-> "path", chain |-> chain]

PlainNode(node) == [kind |-> "node", chain |-> <<node>>]

Undefined == [kind |-> "undefined", chain |-> <<>>]

\* ref.type, the empty string standing for undefined
TypeField(ref) ==
    IF ref.kind = "undefined" THEN "" ELSE ref.chain[Len(ref.chain)].type

\* ref.node
NodeField(ref) ==
    IF ref.kind = "path" THEN PlainNode(ref.chain[Len(ref.chain)]) ELSE Undefined

\* ref.parent
ParentField(ref) ==
    IF ref.kind = "path" /\ Len(ref.chain) > 1
    THEN PlainNode(ref.chain[Len(ref.chain) - 1])
    ELSE Undefined

\* ref.parentPath
ParentPathField(ref) ==
    IF ref.kind = "path" /\ Len(ref.chain) > 1
    THEN NodePath(SubSeq(ref.chain, 1, Len(ref.chain) - 1))
    ELSE Undefined

\* t.isExportNamedDeclaration(x) || t.isExportDefaultDeclaration(x)
IsExportDeclaration(ref) ==
    TypeField(ref) \in {"ExportNamedDeclaration", "ExportDefaultDeclaration"}

isExported(pathOrNode) ==
    IF pathOrNode = Undefined THEN FALSE
    ELSE IF IsExportDeclaration(pathOrNode) THEN TRUE
    ELSE IF ParentField(pathOrNode) # Undefined
         THEN IsExportDeclaration(ParentField(pathOrNode))
    ELSE FALSE

\* the loop of isClassExported goes on with currentPath.parent
RECURSIVE isClassExported(_)
isClassExported(currentPath) ==
    IF currentPath = Undefined THEN FALSE
    ELSE IF TypeField(NodeField(currentPath)) = "ClassDeclaration"
         THEN isExported(currentPath)
    ELSE isClassExported(ParentField(currentPath))

\* the loop of getClassName goes on with currentPath.parentPath
RECURSIVE getClassNameOfPath(_)
getClassNameOfPath(currentPath) ==
    IF currentPath = Undefined THEN NoName
    ELSE LET node == currentPath.chain[Len(currentPath.chain)]
         IN  IF node.type \in {"ClassDeclaration", "ClassExpression"}
                /\ node.name # NoName
             THEN node.name
             ELSE getClassNameOfPath(ParentPathField(currentPath))

getObjectName(path) ==
    IF TypeField(ParentField(path)) = "ObjectExpression"
    THEN LET grandParent == ParentField(ParentPathField(path))
         IN  IF TypeField(grandParent) = "VariableDeclarator"
             THEN grandParent.chain[1].name
             ELSE NoName
    ELSE NoName

\* path.findParent(p => t.isJSXElement(p.node) || t.isJSXFragment(p.node))
RECURSIVE findJsxParent(_)
findJsxParent(path) ==
    LET up == ParentPathField(path)
    IN  IF up = Undefined THEN Undefined
        ELSE IF TypeField(up) \in {"JSXElement", "JSXFragment"} THEN up
        ELSE findJsxParent(up)

\* the functionName of the JSXExpressionContainer visitor
jsxHandlerName(path) ==
    LET parent == ParentField(path)
        inAttribute == TypeField(parent) = "JSXAttribute"
        jsxElement == findJsxParent(path)
    IN  IF inAttribute /\ TypeField(jsxElement) = "JSXElement"
           /\ jsxElement.chain[Len(jsxElement.chain)].name # NoName
        THEN Dotted(jsxElement.chain[Len(jsxElement.chain)].name, parent.chain[1].name)
        ELSE IF inAttribute
        THEN parent.chain[1].name \o <<" ","h","a","n","d","l","e","r">>
        ELSE <<"J","S","X"," ","e","v","e","n","t"," ","h","a","n","d","l","e","r">>

\* name and exported flag of the FunctionData a visitor pushes
Pushed(name, exported) == [name |-> name, exported |-> exported]

\* the visitors of extractFunctions: what the visit of one path pushes
VisitorPushes(path) ==
    LET node == path.chain[Len(path.chain)]
    IN  CASE node.type = "FunctionDeclaration" ->
                IF node.name = NoName THEN <<>>
                ELSE <<Pushed(node.name, isExported(path))>>
          [] node.type = "VariableDeclarator" ->
                IF node.init = "function"
                THEN <<Pushed(node.name, isExported(ParentField(path)))>>
                ELSE <<>>
          [] node.type = "ClassMethod" ->
                LET className == getClassNameOfPath(path)
                IN  <<Pushed(IF className # NoName THEN Dotted(className, node.name)
                             ELSE node.name,
                             isClassExported(path))>>
          [] node.type = "ObjectMethod" ->
                LET objectName == getObjectName(path)
                IN  <<Pushed(IF objectName # NoName THEN Dotted(objectName, node.name)
                             ELSE node.name,
                             FALSE)>>
          [] node.type = "CallExpression" ->
                IF node.init = "function"
                THEN <<Pushed(CallbackName(node.name), FALSE)>>
                ELSE <<>>
          [] node.type = "JSXExpressionContainer" ->
                IF node.init = "function"
                THEN <<Pushed(jsxHandlerName(path), FALSE)>>
                ELSE <<>>
          [] OTHER -> <<>>

RECURSIVE extractFunctionsOfPaths(_)
extractFunctionsOfPaths(paths) ==
    IF paths = <<>> THEN <<>>
    ELSE VisitorPushes(paths[1]) \o extractFunctionsOfPaths(Tail(paths))

----------------------------------------------------------------------------
(* extractFunctionCalls as a traversal: one action per visitor *)

CallsInit ==
    /\ \E n \in 0..MaxNodes : ast \in TreesOfLen(n)
    /\ functionNames = extractFunctions(ast)
    /\ idx = 1
    /\ open = <<>>
    /\ currentFunction = NoName
    /\ calls = <<>>
    \* parseTypeScriptCode is not running
    /\ code = IdleCode
    /\ pc = "idle"
    /\ attempts = <<>>
    /\ parsed = NoTree
    /\ result = EmptyResult
    \* the graph builder and the layout engine are not running
    /\ edgeCalls = <<>>
    /\ edges = <<>>
    /\ edgePc = "idle"
    /\ parsedData = NoParsedData
    /\ graph = NoGraph
    /\ graphAgain = NoGraph
    /\ graphPc = "idle"
    /\ layoutInput = NoGraph
    /\ layoutOutput = <<>>
    /\ layoutEntry = "idle"
    /\ transformInput = NoGraph
    /\ transformFilter = NoFilter
    /\ transformOutput = NoGraph
    /\ transformEntry = "idle"
    /\ visitedPaths = <<>>
    /\ extracted = <<>>
    /\ extractPc = "idle"
    /\ nodeArgument = NoFunctionData
    /\ functionNode = NoNode
    /\ nodePc = "idle"
    /\ reqAst = <<>>
    /\ reqIdx = <<>>
    /\ reqOpen = <<>>
    /\ trackers = <<>>
    /\ reqCalls = <<>>
    /\ reqPc = <<>>
    /\ now = 0
    /\ rateLimitMap = <<>>
    /\ admitted = <<>>
    /\ response = NoResponse
    /\ urlInput = InitialInput
    /\ home = InitialHome
    /\ run = NoRun
    /\ reported = <<>>
    /\ analyzed = <<>>
    /\ parseRequest = "none"
    /\ afterReset = FALSE
    /\ activations = 0

\* the traversal leaves the innermost open node when no further node is
\* inside it
NextIsExit ==
    /\ open # <<>>
    /\ IF idx > Len(ast) THEN TRUE
       ELSE ast[idx].depth <= ast[Head(open)].depth

NextIsEnter == idx <= Len(ast) /\ ~NextIsExit

TraversalDone == idx > Len(ast) /\ open = <<>>

\* enter(path) of the function-like visitor
EnterFunction ==
    /\ NextIsEnter
    /\ IsFunctionLike(ast[idx])
    /\ currentFunction' = TrackerOnEnter(ast, idx, currentFunction)
    /\ open' = <<idx>> \o open
    /\ idx' = idx + 1
    /\ UNCHANGED <<ast, functionNames, calls>>
    /\ UNCHANGED notCallVars

\* exit() of the function-like visitor
ExitFunction ==
    /\ NextIsExit
    /\ IsFunctionLike(ast[Head(open)])
    /\ currentFunction' = TrackerOnExit(currentFunction)
    /\ open' = Tail(open)
    /\ UNCHANGED <<ast, functionNames, idx, calls>>
    /\ UNCHANGED notCallVars

\* the CallExpression visitor
VisitCallExpression ==
    /\ NextIsEnter
    /\ IsCall(ast[idx])
    /\ calls' = calls \o CallRecords(ast, idx, currentFunction, functionNames)
    /\ open' = <<idx>> \o open
    /\ idx' = idx + 1
    /\ UNCHANGED <<ast, functionNames, currentFunction>>
    /\ UNCHANGED notCallVars

\* nodes no visitor is registered for on entry (class declarations)
EnterUnvisited ==
    /\ NextIsEnter
    /\ ~IsFunctionLike(ast[idx]) /\ ~IsCall(ast[idx])
    /\ open' = <<idx>> \o open
    /\ idx' = idx + 1
    /\ UNCHANGED <<ast, functionNames, currentFunction, calls>>
    /\ UNCHANGED notCallVars

\* nodes no visitor is registered for on exit (calls, class declarations)
ExitUnvisited ==
    /\ NextIsExit
    /\ ~IsFunctionLike(ast[Head(open)])
    /\ open' = Tail(open)
    /\ UNCHANGED <<ast, functionNames, idx, currentFunction, calls>>
    /\ UNCHANGED notCallVars

CallsNext ==
    \/ EnterFunction
    \/ ExitFunction
    \/ VisitCallExpression
    \/ EnterUnvisited
    \/ ExitUnvisited

----------------------------------------------------------------------------
(* extractFunctionCalls traversing the methods of a class *)

MaxMethods == 2

\* class C and class {}, as a declaration and as an expression
ClassHeads(d) ==
    {Node(k, c, NoName, "", NoName, d) :
        k \in {"ClassDeclaration", "ClassExpression"}, c \in ClassNames \cup {NoName}}

\* a method at depth d, its body empty or one call
MethodShapes(d) ==
    LET methods == {Node("ClassMethod", n, NoName, "", NoName, d) : n \in MethodIds}
        bodyCalls == {nd \in NodeShapes(d + 1) : IsCall(nd)}
    IN  {<<m>> : m \in methods} \cup {<<c[1], c[2]>> : c \in methods \X bodyCalls}

RECURSIVE MethodsOfLen(_, _)
MethodsOfLen(n, d) ==
    IF n = 0 THEN {<<>>}
    ELSE {c[1] \o c[2] : c \in MethodsOfLen(n - 1, d) \X MethodShapes(d)}

\* the class stands at the top level or in a method of a class D
Enclosing ==
    {<<>>, <<Node("ClassDeclaration", <<"D">>, NoName, "", NoName, 1),
             Node("ClassMethod", <<"f">>, NoName, "", NoName, 2)>>}

\* the file ends with the class or with `function f() {}`
Trailing == {<<>>, <<Node("FunctionDeclaration", <<"f">>, NoName, "", NoName, 1)>>}

ClassTrees(n) ==
    {c[1] \o <<c[2]>> \o c[3] \o c[4] :
        c \in UNION {{outer} \X ClassHeads(Len(outer) + 1)
                        \X MethodsOfLen(n, Len(outer) + 2) \X Trailing :
                     outer \in Enclosing}}

MethodsInit ==
    /\ \E n \in 0..MaxMethods : ast \in ClassTrees(n)
    /\ functionNames = extractFunctions(ast)
    /\ idx = 1
    /\ open = <<>>
    /\ currentFunction = NoName
    /\ calls = <<>>
    \* nothing else is running
    /\ code = IdleCode
    /\ pc = "idle"
    /\ attempts = <<>>
    /\ parsed = NoTree
    /\ result = EmptyResult
    /\ edgeCalls = <<>>
    /\ edges = <<>>
    /\ edgePc = "idle"
    /\ parsedData = NoParsedData
    /\ graph = NoGraph
    /\ graphAgain = NoGraph
    /\ graphPc = "idle"
    /\ layoutInput = NoGraph
    /\ layoutOutput = <<>>
    /\ layoutEntry = "idle"
    /\ transformInput = NoGraph
    /\ transformFilter = NoFilter
    /\ transformOutput = NoGraph
    /\ transformEntry = "idle"
    /\ visitedPaths = <<>>
    /\ extracted = <<>>
    /\ extractPc = "idle"
    /\ nodeArgument = NoFunctionData
    /\ functionNode = NoNode
    /\ nodePc = "idle"
    /\ reqAst = <<>>
    /\ reqIdx = <<>>
    /\ reqOpen = <<>>
    /\ trackers = <<>>
    /\ reqCalls = <<>>
    /\ reqPc = <<>>
    /\ now = 0
    /\ rateLimitMap = <<>>
    /\ admitted = <<>>
    /\ response = NoResponse
    /\ urlInput = InitialInput
    /\ home = InitialHome
    /\ run = NoRun
    /\ reported = <<>>
    /\ analyzed = <<>>
    /\ parseRequest = "none"
    /\ afterReset = FALSE
    /\ activations = 0

SpecMethods == MethodsInit /\ [][CallsNext]_vars

----------------------------------------------------------------------------
(* Two invocations of extractFunctionCalls whose traversal steps interleave. *)
(* `calls` and `currentFunction` are declared in the function body, so each  *)
(* invocation has its own.                                                   *)

Requests == {1, 2}

MaxRequestNodes == 2

\* the file of the second request:
\*   function f() { f(); }     f(); function f() {}     class C { f() {} }
OtherRequestTrees ==
    {<<Node("FunctionDeclaration", <<"f">>, NoName, "", NoName, 1),
       Node("CallExpression", <<"f">>, NoName, "Identifier", NoName, 2)>>,
     <<Node("CallExpression", <<"f">>, NoName, "Identifier", NoName, 1),
       Node("FunctionDeclaration", <<"f">>, NoName, "", NoName, 1)>>,
     <<Node("ClassDeclaration", <<"C">>, NoName, "", NoName, 1),
       Node("ClassMethod", <<"f">>, NoName, "", NoName, 2)>>}

\* a mutant of AssignTracker: one variable serves every invocation
AssignTracker_SharedByRequests(all, r, value) == [q \in DOMAIN all |-> value]

\* an assignment to the currentFunction of invocation r
AssignTracker(all, r, value) == [all EXCEPT ![r] = value]

RequestsInit ==
    /\ \E n \in 0..MaxRequestNodes : \E first \in TreesOfLen(n) :
          \E second \in OtherRequestTrees :
             reqAst = <<first, second>>
    /\ reqIdx = [r \in Requests |-> 1]
    /\ reqOpen = [r \in Requests |-> <<>>]
    /\ trackers = [r \in Requests |-> NoName]
    /\ reqCalls = [r \in Requests |-> <<>>]
    /\ reqPc = [r \in Requests |-> "ready"]
    \* nothing else is running
    /\ ast = <<>>
    /\ functionNames = <<>>
    /\ idx = 1
    /\ open = <<>>
    /\ currentFunction = NoName
    /\ calls = <<>>
    /\ code = IdleCode
    /\ pc = "idle"
    /\ attempts = <<>>
    /\ parsed = NoTree
    /\ result = EmptyResult
    /\ edgeCalls = <<>>
    /\ edges = <<>>
    /\ edgePc = "idle"
    /\ parsedData = NoParsedData
    /\ graph = NoGraph
    /\ graphAgain = NoGraph
    /\ graphPc = "idle"
    /\ layoutInput = NoGraph
    /\ layoutOutput = <<>>
    /\ layoutEntry = "idle"
    /\ transformInput = NoGraph
    /\ transformFilter = NoFilter
    /\ transformOutput = NoGraph
    /\ transformEntry = "idle"
    /\ visitedPaths = <<>>
    /\ extracted = <<>>
    /\ extractPc = "idle"
    /\ nodeArgument = NoFunctionData
    /\ functionNode = NoNode
    /\ nodePc = "idle"
    /\ now = 0
    /\ rateLimitMap = <<>>
    /\ admitted = <<>>
    /\ response = NoResponse
    /\ urlInput = InitialInput
    /\ home = InitialHome
    /\ run = NoRun
    /\ reported = <<>>
    /\ analyzed = <<>>
    /\ parseRequest = "none"
    /\ afterReset = FALSE
    /\ activations = 0

ReqNextIsExit(r) ==
    /\ reqOpen[r] # <<>>
    /\ IF reqIdx[r] > Len(reqAst[r]) THEN TRUE
       ELSE reqAst[r][reqIdx[r]].depth <= reqAst[r][Head(reqOpen[r])].depth

ReqNextIsEnter(r) == reqIdx[r] <= Len(reqAst[r]) /\ ~ReqNextIsExit(r)

\* const calls = []; let currentFunction = null
BeginRequest ==
    \E r \in Requests :
        /\ reqPc[r] = "ready"
        /\ reqCalls' = [reqCalls EXCEPT ![r] = <<>>]
        /\ trackers' = AssignTracker(trackers, r, NoName)
        /\ reqPc' = [reqPc EXCEPT ![r] = "traversing"]
        /\ UNCHANGED <<reqAst, reqIdx, reqOpen>>
        /\ UNCHANGED notRequestVars

\* enter(path) of the function-like visitor
RequestEnterFunction ==
    \E r \in Requests :
        /\ reqPc[r] = "traversing"
        /\ ReqNextIsEnter(r)
        /\ IsFunctionLike(reqAst[r][reqIdx[r]])
        /\ trackers' = AssignTracker(trackers, r,
                          TrackerOnEnter(reqAst[r], reqIdx[r], trackers[r]))
        /\ reqOpen' = [reqOpen EXCEPT ![r] = <<reqIdx[r]>> \o @]
        /\ reqIdx' = [reqIdx EXCEPT ![r] = @ + 1]
        /\ UNCHANGED <<reqAst, reqCalls, reqPc>>
        /\ UNCHANGED notRequestVars

\* exit() of the function-like visitor
RequestExitFunction ==
    \E r \in Requests :
        /\ reqPc[r] = "traversing"
        /\ ReqNextIsExit(r)
        /\ IsFunctionLike(reqAst[r][Head(reqOpen[r])])
        /\ trackers' = AssignTracker(trackers, r, TrackerOnExit(trackers[r]))
        /\ reqOpen' = [reqOpen EXCEPT ![r] = Tail(@)]
        /\ UNCHANGED <<reqAst, reqIdx, reqCalls, reqPc>>
        /\ UNCHANGED notRequestVars

\* the CallExpression visitor
RequestVisitCallExpression ==
    \E r \in Requests :
        /\ reqPc[r] = "traversing"
        /\ ReqNextIsEnter(r)
        /\ IsCall(reqAst[r][reqIdx[r]])
        /\ reqCalls' = [reqCalls EXCEPT ![r] =
                           @ \o CallRecords(reqAst[r], reqIdx[r], trackers[r],
                                            extractFunctions(reqAst[r]))]
        /\ reqOpen' = [reqOpen EXCEPT ![r] = <<reqIdx[r]>> \o @]
        /\ reqIdx' = [reqIdx EXCEPT ![r] = @ + 1]
        /\ UNCHANGED <<reqAst, trackers, reqPc>>
        /\ UNCHANGED notRequestVars

\* nodes no visitor is registered for on entry
RequestEnterUnvisited ==
    \E r \in Requests :
        /\ reqPc[r] = "traversing"
        /\ ReqNextIsEnter(r)
        /\ ~IsFunctionLike(reqAst[r][reqIdx[r]]) /\ ~IsCall(reqAst[r][reqIdx[r]])
        /\ reqOpen' = [reqOpen EXCEPT ![r] = <<reqIdx[r]>> \o @]
        /\ reqIdx' = [reqIdx EXCEPT ![r] = @ + 1]
        /\ UNCHANGED <<reqAst, trackers, reqCalls, reqPc>>
        /\ UNCHANGED notRequestVars

\* nodes no visitor is registered for on exit
RequestExitUnvisited ==
    \E r \in Requests :
        /\ reqPc[r] = "traversing"
        /\ ReqNextIsExit(r)
        /\ ~IsFunctionLike(reqAst[r][Head(reqOpen[r])])
        /\ reqOpen' = [reqOpen EXCEPT ![r] = Tail(@)]
        /\ UNCHANGED <<reqAst, reqIdx, trackers, reqCalls, reqPc>>
        /\ UNCHANGED notRequestVars

\* return calls
FinishRequest ==
    \E r \in Requests :
        /\ reqPc[r] = "traversing"
        /\ reqIdx[r] > Len(reqAst[r])
        /\ reqOpen[r] = <<>>
        /\ reqPc' = [reqPc EXCEPT ![r] = "done"]
        /\ UNCHANGED <<reqAst, reqIdx, reqOpen, trackers, reqCalls>>
        /\ UNCHANGED notRequestVars

RequestsNext ==
    \/ BeginRequest
    \/ RequestEnterFunction
    \/ RequestExitFunction
    \/ RequestVisitCallExpression
    \/ RequestEnterUnvisited
    \/ RequestExitUnvisited
    \/ FinishRequest

SpecRequests == RequestsInit /\ [][RequestsNext]_vars

----------------------------------------------------------------------------
(* parseTypeScriptCode *)

\* 500 * 1024, the limit on code.length
MaxCodeLength == 512000

\* the values handed to parseTypeScriptCode: undefined, null, a value that
\* is not a string, and strings by their length
CodeValues ==
      {[type |-> ty, length |-> 0] : ty \in {"undefined", "null", "object"}}
 \cup {[type |-> "string", length |-> n] :
           n \in {0, 1, MaxCodeLength, MaxCodeLength + 1}}

\* !code
Falsy(c) == c.type \in {"undefined", "null"} \/ (c.type = "string" /\ c.length = 0)

\* a mutant of Grammar: the second attempt still enables JSX
Grammar_JsxKept(tier) ==
    CASE tier = 1 -> [typescript |-> TRUE, jsx |-> TRUE, extensions |-> TRUE]
      [] tier = 2 -> [typescript |-> TRUE, jsx |-> TRUE, extensions |-> TRUE]
      [] tier = 3 -> [typescript |-> TRUE, jsx |-> FALSE, extensions |-> FALSE]

\* the parser options of the three attempts
Grammar(tier) ==
    CASE tier = 1 -> [typescript |-> TRUE, jsx |-> TRUE, extensions |-> TRUE]
      [] tier = 2 -> [typescript |-> TRUE, jsx |-> FALSE, extensions |-> TRUE]
      [] tier = 3 -> [typescript |-> TRUE, jsx |-> FALSE, extensions |-> FALSE]

\* an Error: where it was thrown, whether its message has 'Unexpected token',
\* whether it has '<', and the n of a "(n:n)" in the message (0: none)
ErrorValue(origin, unexpected, lt, pos) ==
    [origin |-> origin, unexpectedToken |-> unexpected, lt |-> lt, pos |-> pos]

\* what the parser throws at the attempt made at statement p
ParserErrors(p, tier) ==
      {ErrorValue(p, TRUE, lt, tier) : lt \in BOOLEAN}
 \cup {ErrorValue(p, FALSE, FALSE, pos) : pos \in {0, tier}}

\* what a traversal throws
TraversalErrors(stage) == {ErrorValue(stage, FALSE, FALSE, 0)}

\* the catch block of parseTypeScriptCode: the ParseError built from error
ParseErrorOf(error) ==
    [type    |-> "syntax",
     message |-> IF error.unexpectedToken
                 THEN IF error.lt THEN [text |-> "JSX/TSX syntax detected", of |-> ""]
                      ELSE [text |-> "Syntax error: ", of |-> error.origin]
                 ELSE [text |-> "", of |-> error.origin],
     line    |-> error.pos,
     column  |-> error.pos]

ValidationError(text) ==
    [type |-> "validation", message |-> [text |-> text, of |-> ""],
     line |-> 0, column |-> 0]

ParseInit ==
    /\ code \in CodeValues
    /\ pc = "validate"
    /\ attempts = <<>>
    /\ parsed = NoTree
    /\ result = EmptyResult
    \* no traversal of extractFunctionCalls is being followed
    /\ ast = <<>>
    /\ functionNames = <<>>
    /\ idx = 1
    /\ open = <<>>
    /\ currentFunction = NoName
    /\ calls = <<>>
    \* the graph builder and the layout engine are not running
    /\ edgeCalls = <<>>
    /\ edges = <<>>
    /\ edgePc = "idle"
    /\ parsedData = NoParsedData
    /\ graph = NoGraph
    /\ graphAgain = NoGraph
    /\ graphPc = "idle"
    /\ layoutInput = NoGraph
    /\ layoutOutput = <<>>
    /\ layoutEntry = "idle"
    /\ transformInput = NoGraph
    /\ transformFilter = NoFilter
    /\ transformOutput = NoGraph
    /\ transformEntry = "idle"
    /\ visitedPaths = <<>>
    /\ extracted = <<>>
    /\ extractPc = "idle"
    /\ nodeArgument = NoFunctionData
    /\ functionNode = NoNode
    /\ nodePc = "idle"
    /\ reqAst = <<>>
    /\ reqIdx = <<>>
    /\ reqOpen = <<>>
    /\ trackers = <<>>
    /\ reqCalls = <<>>
    /\ reqPc = <<>>
    /\ now = 0
    /\ rateLimitMap = <<>>
    /\ admitted = <<>>
    /\ response = NoResponse
    /\ urlInput = InitialInput
    /\ home = InitialHome
    /\ run = NoRun
    /\ reported = <<>>
    /\ analyzed = <<>>
    /\ parseRequest = "none"
    /\ afterReset = FALSE
    /\ activations = 0

\* result.errors.push(parseError); return result
Caught(error) ==
    /\ result' = [result EXCEPT !.errors = Append(@, ParseErrorOf(error))]
    /\ pc' = "done"

\* a mutant of ValidateInput: the size check rejects the limit itself
ValidateInput_LimitExcluded ==
    /\ pc = "validate"
    /\ IF Falsy(code) \/ code.type # "string"
       THEN /\ result' = [result EXCEPT !.errors =
                             Append(@, ValidationError("No code provided"))]
            /\ pc' = "done"
       ELSE IF code.length >= MaxCodeLength
       THEN /\ result' = [result EXCEPT !.errors =
                             Append(@, ValidationError("File too large"))]
            /\ pc' = "done"
       ELSE /\ pc' = "parse1"
            /\ UNCHANGED result
    /\ UNCHANGED <<code, attempts, parsed>>
    /\ UNCHANGED notParseVars

\* the two checks on the input
ValidateInput ==
    /\ pc = "validate"
    /\ IF Falsy(code) \/ code.type # "string"
       THEN /\ result' = [result EXCEPT !.errors =
                             Append(@, ValidationError("No code provided"))]
            /\ pc' = "done"
       ELSE IF code.length > MaxCodeLength
       THEN /\ result' = [result EXCEPT !.errors =
                             Append(@, ValidationError("File too large"))]
            /\ pc' = "done"
       ELSE /\ pc' = "parse1"
            /\ UNCHANGED result
    /\ UNCHANGED <<code, attempts, parsed>>
    /\ UNCHANGED notParseVars

TierOf(p) == CASE p = "parse1" -> 1 [] p = "parse2" -> 2 [] p = "parse3" -> 3 [] OTHER -> 0

\* parse(code, options) returns a tree
ParseSucceeds ==
    /\ TierOf(pc) # 0
    /\ \E n \in 0..MaxParseNodes : \E t \in TreesOfLen(n) :
          /\ parsed' = [tier |-> TierOf(pc), tree |-> t]
          /\ attempts' = Append(attempts,
                 [tier |-> TierOf(pc), grammar |-> Grammar(TierOf(pc)), ok |-> TRUE,
                  tree |-> t, error |-> ErrorValue("", FALSE, FALSE, 0)])
    /\ pc' = "extractFunctions"
    /\ UNCHANGED <<code, result>>
    /\ UNCHANGED notParseVars

\* a mutant of ParseFails: the outer catch receives the first attempt's error
ParseFails_ReportsFirstError ==
    /\ TierOf(pc) # 0
    /\ \E e \in ParserErrors(pc, TierOf(pc)) :
          /\ attempts' = Append(attempts,
                 [tier |-> TierOf(pc), grammar |-> Grammar(TierOf(pc)), ok |-> FALSE,
                  tree |-> <<>>, error |-> e])
          /\ IF pc = "parse1" THEN pc' = "parse2" /\ UNCHANGED result
             ELSE IF pc = "parse2" THEN pc' = "parse3" /\ UNCHANGED result
             ELSE Caught(attempts[1].error)
    /\ UNCHANGED <<code, parsed>>
    /\ UNCHANGED notParseVars

\* parse(code, options) throws: the next attempt is made, the third error
\* reaches the outer catch
ParseFails ==
    /\ TierOf(pc) # 0
    /\ \E e \in ParserErrors(pc, TierOf(pc)) :
          /\ attempts' = Append(attempts,
                 [tier |-> TierOf(pc), grammar |-> Grammar(TierOf(pc)), ok |-> FALSE,
                  tree |-> <<>>, error |-> e])
          /\ IF pc = "parse1" THEN pc' = "parse2" /\ UNCHANGED result
             ELSE IF pc = "parse2" THEN pc' = "parse3" /\ UNCHANGED result
             ELSE Caught(e)
    /\ UNCHANGED <<code, parsed>>
    /\ UNCHANGED notParseVars

\* const functions = extractFunctions(ast, code); result.functions = functions
ExtractFunctionsStep ==
    /\ pc = "extractFunctions"
    /\ result' = [result EXCEPT !.functions = extractFunctions(parsed.tree)]
    /\ pc' = "extractCalls"
    /\ UNCHANGED <<code, attempts, parsed>>
    /\ UNCHANGED notParseVars

\* result.calls = extractFunctionCalls(ast, functionNames)
ExtractCallsStep ==
    /\ pc = "extractCalls"
    /\ result' = [result EXCEPT !.calls =
                     extractFunctionCalls(parsed.tree, result.functions)]
    /\ pc' = "extractMetadata"
    /\ UNCHANGED <<code, attempts, parsed>>
    /\ UNCHANGED notParseVars

\* extractImportsAndExports(ast) and the metadata assignment
ExtractMetadataStep ==
    /\ pc = "extractMetadata"
    /\ result' = [result EXCEPT !.metadata =
                     [totalFunctions |-> Len(result.functions),
                      totalCalls |-> Len(result.calls)]]
    /\ pc' = "done"
    /\ UNCHANGED <<code, attempts, parsed>>
    /\ UNCHANGED notParseVars

\* a traversal of one of the three extraction stages throws; the outer
\* catch receives the error
ExtractionThrows ==
    /\ pc \in {"extractFunctions", "extractCalls", "extractMetadata"}
    /\ \E e \in TraversalErrors(pc) : Caught(e)
    /\ UNCHANGED <<code, attempts, parsed>>
    /\ UNCHANGED notParseVars

ParseNext ==
    \/ ValidateInput
    \/ ParseSucceeds
    \/ ParseFails
    \/ ExtractFunctionsStep
    \/ ExtractCallsStep
    \/ ExtractMetadataStep
    \/ ExtractionThrows

SpecParse == ParseInit /\ [][ParseNext]_vars

----------------------------------------------------------------------------
SpecCalls == CallsInit /\ [][CallsNext]_vars

----------------------------------------------------------------------------
(* String operations used by the graph builder and the layout engine *)

LowerCase == <<"a","b","c","d","e","f","g","h","i","j","k","l","m","n","o","p","q","r","s","t","u","v","w","x","y","z">>

UpperCase == <<"A","B","C","D","E","F","G","H","I","J","K","L","M","N","O","P","Q","R","S","T","U","V","W","X","Y","Z">>

Digits == <<"0","1","2","3","4","5","6","7","8","9">>

\* the characters the class [a-zA-Z0-9] matches
AlphaNumeric == Range(LowerCase) \cup Range(UpperCase) \cup Range(Digits)

\* s.replace(/[^a-zA-Z0-9]/g, '_')
RECURSIVE Sanitize(_)
Sanitize(s) ==
    IF s = <<>> THEN <<>>
    ELSE <<IF Head(s) \in AlphaNumeric THEN Head(s) ELSE "_">> \o Sanitize(Tail(s))

\* s.includes(pattern)
IncludesStr(s, pattern) ==
    \E i \in 1..(Len(s) - Len(pattern) + 1) :
        SubSeq(s, i, i + Len(pattern) - 1) = pattern

\* s.split(separator), reading s from the left
RECURSIVE SplitFrom(_, _, _)
SplitFrom(s, separator, piece) ==
    IF s = <<>> THEN <<piece>>
    ELSE IF Len(s) >= Len(separator) /\ SubSeq(s, 1, Len(separator)) = separator
         THEN <<piece>> \o SplitFrom(SubSeq(s, Len(separator) + 1, Len(s)),
                                     separator, <<>>)
         ELSE SplitFrom(Tail(s), separator, Append(piece, Head(s)))

Split(s, separator) == SplitFrom(s, separator, <<>>)

\* `${n}`, the decimal numeral of a natural number
RECURSIVE Decimal(_)
Decimal(n) ==
    IF n < 10 THEN <<Digits[n + 1]>>
    ELSE Decimal(n \div 10) \o <<Digits[(n % 10) + 1]>>

LowerChar(c) ==
    IF \E i \in DOMAIN UpperCase : UpperCase[i] = c
    THEN LowerCase[CHOOSE i \in DOMAIN UpperCase : UpperCase[i] = c]
    ELSE c

\* s.toLowerCase()
RECURSIVE toLowerCase(_)
toLowerCase(s) ==
    IF s = <<>> THEN <<>> ELSE <<LowerChar(Head(s))>> \o toLowerCase(Tail(s))

\* all sequences of length n over S
RECURSIVE SeqsOfLen(_, _)
SeqsOfLen(S, n) ==
    IF n = 0 THEN {<<>>}
    ELSE {Append(c[1], c[2]) : c \in SeqsOfLen(S, n - 1) \X S}

Min(a, b) == IF a <= b THEN a ELSE b

Max2(a, b) == IF a >= b THEN a ELSE b

----------------------------------------------------------------------------
(* graphBuilder.ts: edges *)

NODE_TYPES ==
    [FUNCTION |-> "functionNode", CLASS_METHOD |-> "classMethodNode",
     EXPORTED |-> "exportedFunctionNode", ASYNC |-> "asyncFunctionNode"]

EDGE_TYPES ==
    [FUNCTION_CALL |-> "functionCall", ASYNC_CALL |-> "asyncCall",
     MULTIPLE_CALLS |-> "multipleCalls"]

\* `node-${functionName.replace(...)}`
createNodeId(functionName) == <<"n","o","d","e","-">> \o Sanitize(functionName)

\* `edge-${sourceId}-to-${targetId}`
createEdgeId(source, target) ==
    <<"e","d","g","e","-">> \o Sanitize(source) \o <<"-","t","o","-">> \o Sanitize(target)

\* the separator of a relationship key, ' -> '
Arrow == <<" ", "-", ">", " ">>

\* `${call.caller} -> ${call.callee}`
RelationshipKey(call) == call.caller \o Arrow \o call.callee

\* a mutant of AddToGroups: a call whose key is already present is dropped
AddToGroups_KeepsFirst(groups, call) ==
    IF \E g \in DOMAIN groups : groups[g].key = RelationshipKey(call)
    THEN groups
    ELSE Append(groups, [key |-> RelationshipKey(call), calls |-> <<call>>])

\* the body of the forEach of groupCallsByRelationship; the Map is the list
\* of its entries in insertion order
AddToGroups(groups, call) ==
    IF \E g \in DOMAIN groups : groups[g].key = RelationshipKey(call)
    THEN [g \in DOMAIN groups |->
             IF groups[g].key = RelationshipKey(call)
             THEN [groups[g] EXCEPT !.calls = Append(@, call)]
             ELSE groups[g]]
    ELSE Append(groups, [key |-> RelationshipKey(call), calls |-> <<call>>])

RECURSIVE GroupInto(_, _)
GroupInto(groups, callList) ==
    IF callList = <<>> THEN groups
    ELSE GroupInto(AddToGroups(groups, Head(callList)), Tail(callList))

groupCallsByRelationship(callList) == GroupInto(<<>>, callList)

asyncPatterns ==
    {<<"a","s","y","n","c">>, <<"f","e","t","c","h">>, <<"a","w","a","i","t">>,
     <<"p","r","o","m","i","s","e">>, <<"t","h","e","n">>, <<"c","a","t","c","h">>}

isAsyncCall(call) ==
    \E pattern \in asyncPatterns : IncludesStr(toLowerCase(call.callee), pattern)

getEdgeType(edgeType) ==
    CASE edgeType = EDGE_TYPES.ASYNC_CALL -> "smoothstep"
      [] edgeType = EDGE_TYPES.MULTIPLE_CALLS -> "step"
      [] OTHER -> "default"

\* strokeWidth is kept in halves: Math.min(2 + callCount * 0.5, 6)
getEdgeStyle(edgeType, callCount) ==
    [strokeWidthHalves |-> Min(4 + callCount, 12),
     stroke |-> CASE edgeType = EDGE_TYPES.ASYNC_CALL -> "#8b5cf6"
                  [] edgeType = EDGE_TYPES.MULTIPLE_CALLS -> "#f59e0b"
                  [] OTHER -> "#6b7280",
     strokeDasharray |-> IF edgeType = EDGE_TYPES.ASYNC_CALL THEN "5,5" ELSE ""]

\* an absent label
NoLabel == <<>>

\* a mutant of EdgeOfGroup: the ends of the edge are the names, not the ids
EdgeOfGroup_EndsAreNames(entry) ==
    LET parts        == Split(entry.key, Arrow)
        caller       == parts[1]
        callee       == parts[2]
        callCount    == Len(entry.calls)
        hasAsyncCall == \E i \in DOMAIN entry.calls : isAsyncCall(entry.calls[i])
        edgeType     == IF hasAsyncCall THEN EDGE_TYPES.ASYNC_CALL
                        ELSE IF callCount > 1 THEN EDGE_TYPES.MULTIPLE_CALLS
                        ELSE EDGE_TYPES.FUNCTION_CALL
    IN  [id       |-> createEdgeId(caller, callee),
         source   |-> caller,
         target   |-> callee,
         type     |-> getEdgeType(edgeType),
         animated |-> hasAsyncCall,
         style    |-> getEdgeStyle(edgeType, callCount),
         label    |-> IF callCount > 1 THEN Decimal(callCount) \o <<"x">> ELSE NoLabel,
         data     |-> [calls |-> entry.calls, callCount |-> callCount,
                       isAsync |-> hasAsyncCall]]

\* the callback of the map of createFunctionEdges, for one Map entry
EdgeOfGroup(entry) ==
    LET parts        == Split(entry.key, Arrow)
        caller       == parts[1]
        callee       == parts[2]
        callCount    == Len(entry.calls)
        hasAsyncCall == \E i \in DOMAIN entry.calls : isAsyncCall(entry.calls[i])
        edgeType     == IF hasAsyncCall THEN EDGE_TYPES.ASYNC_CALL
                        ELSE IF callCount > 1 THEN EDGE_TYPES.MULTIPLE_CALLS
                        ELSE EDGE_TYPES.FUNCTION_CALL
    IN  [id       |-> createEdgeId(caller, callee),
         source   |-> createNodeId(caller),
         target   |-> createNodeId(callee),
         type     |-> getEdgeType(edgeType),
         animated |-> hasAsyncCall,
         style    |-> getEdgeStyle(edgeType, callCount),
         label    |-> IF callCount > 1 THEN Decimal(callCount) \o <<"x">> ELSE NoLabel,
         data     |-> [calls |-> entry.calls, callCount |-> callCount,
                       isAsync |-> hasAsyncCall]]

createFunctionEdges(callList) ==
    LET callGroups == groupCallsByRelationship(callList)
    IN  [g \in DOMAIN callGroups |-> EdgeOfGroup(callGroups[g])]

----------------------------------------------------------------------------
(* graphBuilder.ts: nodes.  A FunctionData record has the fields name,      *)
(* parameters (records with name and type), returnType, async and exported; *)
(* an absent optional field is the falsy value of its type.  Fields that    *)
(* only carry presentation (colours, class names, source preview,           *)
(* documentation, location) are left out of nodes.                          *)

VoidType == <<"v","o","i","d">>

NumberType == <<"n","u","m","b","e","r">>

AnyType == <<"a","n","y">>

\* a mutant of calculateComplexity: the score is rounded down
calculateComplexity_RoundsDown(functionData) ==
    LET halves == 2 + Len(functionData.parameters)
                  + (IF Includes(functionData.returnType, "|")
                        \/ Includes(functionData.returnType, "&") THEN 2 ELSE 0)
                  + (IF functionData.async THEN 2 ELSE 0)
                  + (IF Includes(functionData.name, ".") THEN 1 ELSE 0)
    IN  Min(halves \div 2, 10)

\* the score is computed in halves, Math.ceil rounds them up
calculateComplexity(functionData) ==
    LET halves == 2 + Len(functionData.parameters)
                  + (IF Includes(functionData.returnType, "|")
                        \/ Includes(functionData.returnType, "&") THEN 2 ELSE 0)
                  + (IF functionData.async THEN 2 ELSE 0)
                  + (IF Includes(functionData.name, ".") THEN 1 ELSE 0)
    IN  Min((halves + 1) \div 2, 10)

categorizeFunction(functionData) ==
    IF functionData.exported THEN "exported"
    ELSE IF functionData.async THEN "async"
    ELSE IF Includes(functionData.name, ".") THEN "method"
    ELSE IF Len(functionData.parameters) = 0 THEN "simple"
    ELSE IF Len(functionData.parameters) > 3 THEN "complex"
    ELSE "function"

\* a mutant of createFunctionNode: the exported kind comes first
createFunctionNode_ExportedFirst(functionData) ==
    [id       |-> createNodeId(functionData.name),
     type     |-> IF functionData.exported THEN NODE_TYPES.EXPORTED
                  ELSE IF Includes(functionData.name, ".") THEN NODE_TYPES.CLASS_METHOD
                  ELSE IF functionData.async THEN NODE_TYPES.ASYNC
                  ELSE NODE_TYPES.FUNCTION,
     position |-> [x |-> 0, y |-> 0],
     data     |-> [label      |-> functionData.name,
                   parameters |-> functionData.parameters,
                   returnType |-> functionData.returnType,
                   isAsync    |-> functionData.async,
                   isExported |-> functionData.exported,
                   complexity |-> calculateComplexity(functionData),
                   category   |-> categorizeFunction(functionData),
                   type       |-> "",
                   count      |-> 0,
                   isHeader   |-> FALSE],
     style    |-> [width |-> 0, height |-> 0]]

createFunctionNode(functionData) ==
    [id       |-> createNodeId(functionData.name),
     type     |-> IF Includes(functionData.name, ".") THEN NODE_TYPES.CLASS_METHOD
                  ELSE IF functionData.exported THEN NODE_TYPES.EXPORTED
                  ELSE IF functionData.async THEN NODE_TYPES.ASYNC
                  ELSE NODE_TYPES.FUNCTION,
     position |-> [x |-> 0, y |-> 0],
     data     |-> [label      |-> functionData.name,
                   parameters |-> functionData.parameters,
                   returnType |-> functionData.returnType,
                   isAsync    |-> functionData.async,
                   isExported |-> functionData.exported,
                   complexity |-> calculateComplexity(functionData),
                   category   |-> categorizeFunction(functionData),
                   type       |-> "",
                   count      |-> 0,
                   isHeader   |-> FALSE],
     style    |-> [width |-> 0, height |-> 0]]

----------------------------------------------------------------------------
(* layoutEngine.ts *)

DEFAULT_LAYOUT_OPTIONS ==
    [direction |-> "TB", nodeWidth |-> 450, nodeHeight |-> 180,
     rankSep |-> 180, nodeSep |-> 120]

RECURSIVE LongestParam(_)
LongestParam(parameters) ==
    IF parameters = <<>> THEN 0
    ELSE Max2(Len(Head(parameters).name) + Len(Head(parameters).type),
              LongestParam(Tail(parameters)))

calculateNodeSize(node, options) ==
    LET data       == node.data
        paramCount == Len(data.parameters)
        labelled   == IF data.label # <<>>
                      THEN Max2(options.nodeWidth, Max2(Len(data.label) * 12, 300))
                      ELSE options.nodeWidth
        withParams == IF paramCount > 0
                      THEN Max2(labelled, LongestParam(data.parameters) * 8 + 100)
                      ELSE labelled
        height     == IF paramCount > 0
                      THEN Max2(options.nodeHeight, 180 + paramCount * 30)
                      ELSE options.nodeHeight
        withReturn == IF data.returnType # <<>> /\ data.returnType # AnyType
                      THEN Max2(withParams, Len(data.returnType) * 12 + 120)
                      ELSE withParams
        badgeWidth == (IF data.isAsync THEN 120 ELSE 0)
                      + (IF data.isExported THEN 100 ELSE 0)
                      + (IF data.complexity > 3 THEN 100 ELSE 0)
        asyncExtraWidth == IF data.isAsync THEN 80 ELSE 0
        maxWidth   == IF data.isAsync THEN 800 ELSE 700
    IN  [width  |-> Min(Max2(withReturn + badgeWidth + asyncExtraWidth, 400), maxWidth),
         height |-> Min(Max2(height, 180), 400)]

IdsOf(nodes) == {nodes[i].id : i \in DOMAIN nodes}

\* graph.node(id) after dagre.layout: the size is the one of the last
\* setNode for that id, the centre is dagre's
DagreNode(nodes, layoutOpts, placement, id) ==
    LET last == Max({i \in DOMAIN nodes : nodes[i].id = id})
        size == calculateNodeSize(nodes[last], layoutOpts)
    IN  [x |-> placement[id].x, y |-> placement[id].y,
         width |-> size.width, height |-> size.height]

\* dagre is not modelled: placement is the centre it gives to each node id
layoutNodes(nodes, edgeList, options, placement) ==
    LET layoutOpts == options @@ DEFAULT_LAYOUT_OPTIONS
    IN  [i \in DOMAIN nodes |->
            LET nodeWithPosition == DagreNode(nodes, layoutOpts, placement, nodes[i].id)
            IN  [nodes[i] EXCEPT
                    !.position = [x |-> nodeWithPosition.x - (nodeWithPosition.width \div 2),
                                  y |-> nodeWithPosition.y - (nodeWithPosition.height \div 2)],
                    !.style = [@ EXCEPT !.width = nodeWithPosition.width,
                                        !.height = nodeWithPosition.height]]]

createHierarchicalLayout(nodes, edgeList, placement) ==
    layoutNodes(nodes, edgeList,
                [direction |-> "TB", rankSep |-> 120, nodeSep |-> 80], placement)

createHorizontalLayout(nodes, edgeList, placement) ==
    layoutNodes(nodes, edgeList,
                [direction |-> "LR", rankSep |-> 150, nodeSep |-> 100], placement)

\* a point of the circle is kept as the expression the code evaluates:
\* centre + radius * cos|sin(2 * PI * index / count) - offset
createCircularLayout(nodes, edgeList, placement) ==
    IF Len(nodes) <= 1
    THEN [i \in DOMAIN nodes |-> [nodes[i] EXCEPT !.position = [x |-> 0, y |-> 0]]]
    ELSE IF Len(nodes) <= 6
    THEN [i \in DOMAIN nodes |->
            [nodes[i] EXCEPT !.position =
                [x |-> [centre |-> 200, radius |-> Max2(100, Len(nodes) * 30),
                        cosOfTurn |-> <<i - 1, Len(nodes)>>, offset |-> 125],
                 y |-> [centre |-> 200, radius |-> Max2(100, Len(nodes) * 30),
                        sinOfTurn |-> <<i - 1, Len(nodes)>>, offset |-> 50]]]]
    ELSE createHierarchicalLayout(nodes, edgeList, placement)

typeOrder ==
    <<"exported", "async", "method", "useCallback", "useEffect", "useMemo",
      "useState", "jsxHandler", "function", "other">>

\* a group type as the text that is put into a header id
TypeText(type) ==
    CASE type = "exported"    -> <<"e","x","p","o","r","t","e","d">>
      [] type = "async"       -> <<"a","s","y","n","c">>
      [] type = "method"      -> <<"m","e","t","h","o","d">>
      [] type = "useCallback" -> <<"u","s","e","C","a","l","l","b","a","c","k">>
      [] type = "useEffect"   -> <<"u","s","e","E","f","f","e","c","t">>
      [] type = "useMemo"     -> <<"u","s","e","M","e","m","o">>
      [] type = "useState"    -> <<"u","s","e","S","t","a","t","e">>
      [] type = "jsxHandler"  -> <<"j","s","x","H","a","n","d","l","e","r">>
      [] type = "function"    -> <<"f","u","n","c","t","i","o","n">>
      [] OTHER                -> <<"o","t","h","e","r">>

\* the titles; the pictograph that starts each of them is one element
typeTitles(type) ==
    <<"(pictograph)", " ">> \o
    CASE type = "exported"    -> <<"E","x","p","o","r","t","e","d"," ","F","u","n","c","t","i","o","n","s">>
      [] type = "async"       -> <<"A","s","y","n","c"," ","F","u","n","c","t","i","o","n","s">>
      [] type = "method"      -> <<"C","l","a","s","s"," ","M","e","t","h","o","d","s">>
      [] type = "useCallback" -> <<"u","s","e","C","a","l","l","b","a","c","k"," ","H","o","o","k","s">>
      [] type = "useEffect"   -> <<"u","s","e","E","f","f","e","c","t"," ","H","o","o","k","s">>
      [] type = "useMemo"     -> <<"u","s","e","M","e","m","o"," ","H","o","o","k","s">>
      [] type = "useState"    -> <<"u","s","e","S","t","a","t","e"," ","H","o","o","k","s">>
      [] type = "jsxHandler"  -> <<"J","S","X"," ","E","v","e","n","t"," ","H","a","n","d","l","e","r","s">>
      [] type = "function"    -> <<"R","e","g","u","l","a","r"," ","F","u","n","c","t","i","o","n","s">>
      [] OTHER                -> <<"O","t","h","e","r"," ","F","u","n","c","t","i","o","n","s">>

\* the primaryType organizeNodesByType gives a node
PrimaryType(node) ==
    LET data == node.data
        has(pattern) == data.label # <<>> /\ IncludesStr(data.label, pattern)
    IN  IF data.isExported THEN "exported"
        ELSE IF data.isAsync THEN "async"
        ELSE IF data.category = "method" \/ has(<<".">>) THEN "method"
        ELSE IF has(<<"(","u","s","e","C","a","l","l","b","a","c","k",")">>) THEN "useCallback"
        ELSE IF has(<<"(","u","s","e","E","f","f","e","c","t",")">>) THEN "useEffect"
        ELSE IF has(<<"(","u","s","e","M","e","m","o",")">>) THEN "useMemo"
        ELSE IF has(<<"(","u","s","e","S","t","a","t","e",")">>) THEN "useState"
        ELSE IF has(<<".","o","n","C","l","i","c","k">>) \/ has(<<"h","a","n","d","l","e","r">>) \/ has(<<"H","a","n","d","l","e","r">>)
             THEN "jsxHandler"
        ELSE IF data.category = "function" \/ data.category = "" THEN "function"
        ELSE "other"

\* labelA.localeCompare(labelB) for the characters that occur in names:
\* white space, then punctuation, then digits, then letters; letters differ
\* first by the letter and only then by case, lower case first
CollationOrder ==
    <<" ", "_", "-", ".", "(", ")", "|", "&">> \o Digits \o LowerCase

CollationRank(c) ==
    LET l == LowerChar(c)
    IN  IF \E i \in DOMAIN CollationOrder : CollationOrder[i] = l
        THEN CHOOSE i \in DOMAIN CollationOrder : CollationOrder[i] = l
        ELSE 0

RECURSIVE ComparePrimary(_, _)
ComparePrimary(a, b) ==
    IF a = <<>> /\ b = <<>> THEN 0
    ELSE IF a = <<>> THEN -1
    ELSE IF b = <<>> THEN 1
    ELSE IF CollationRank(Head(a)) < CollationRank(Head(b)) THEN -1
    ELSE IF CollationRank(Head(a)) > CollationRank(Head(b)) THEN 1
    ELSE ComparePrimary(Tail(a), Tail(b))

RECURSIVE CompareCase(_, _)
CompareCase(a, b) ==
    IF a = <<>> \/ b = <<>> THEN 0
    ELSE IF Head(a) = Head(b) THEN CompareCase(Tail(a), Tail(b))
    ELSE IF Head(a) = LowerChar(Head(a)) THEN -1
    ELSE 1

localeCompare(a, b) ==
    IF ComparePrimary(a, b) # 0 THEN ComparePrimary(a, b) ELSE CompareCase(a, b)

\* Array.prototype.sort is stable: a node goes before the first node whose
\* label is greater
InsertByLabel(sorted, node) ==
    LET after == {k \in DOMAIN sorted :
                     localeCompare(sorted[k].data.label, node.data.label) > 0}
    IN  IF after = {} THEN Append(sorted, node)
        ELSE LET k == CHOOSE m \in after : \A n \in after : m <= n
             IN  SubSeq(sorted, 1, k - 1) \o <<node>> \o SubSeq(sorted, k, Len(sorted))

RECURSIVE SortByLabelInto(_, _)
SortByLabelInto(sorted, nodes) ==
    IF nodes = <<>> THEN sorted
    ELSE SortByLabelInto(InsertByLabel(sorted, Head(nodes)), Tail(nodes))

SortByLabel(nodes) == SortByLabelInto(<<>>, nodes)

GroupNodes(nodes, type) == SelectSeq(nodes, LAMBDA n : PrimaryType(n) = type)

\* the groups of the types of `order` that have nodes, in that order
GroupsInOrder(order, nodes) ==
    LET present == SelectSeq(order, LAMBDA type : GroupNodes(nodes, type) # <<>>)
    IN  [g \in DOMAIN present |->
            [type  |-> present[g],
             title |-> typeTitles(present[g]),
             nodes |-> SortByLabel(GroupNodes(nodes, present[g]))]]

\* a mutant of organizeNodesByType: the 'function' group is not emitted
organizeNodesByType_NoFunctionGroup(nodes) ==
    GroupsInOrder(SelectSeq(typeOrder, LAMBDA type : type # "function"), nodes)

organizeNodesByType(nodes) == GroupsInOrder(typeOrder, nodes)

\* the constants of createMatrixLayout
nodeWidth == 500

nodeHeight == 250

horizontalSpacing == 850

verticalSpacing == 350

startX == 50

startY == 50

groupSpacing == 100

\* `section-header-${group.type}-${groupIndex}-${layoutId}`
HeaderId(type, groupIndex, layoutId) ==
    <<"s","e","c","t","i","o","n","-","h","e","a","d","e","r","-">> \o TypeText(type) \o <<"-">> \o Decimal(groupIndex) \o <<"-">> \o layoutId

headerNode(group, groupIndex, currentY, columnsPerRow, layoutId) ==
    [id       |-> HeaderId(group.type, groupIndex, layoutId),
     type     |-> "sectionHeader",
     position |-> [x |-> startX, y |-> currentY - 50],
     data     |-> [label      |-> group.title,
                   parameters |-> <<>>,
                   returnType |-> <<>>,
                   isAsync    |-> FALSE,
                   isExported |-> FALSE,
                   complexity |-> 0,
                   category   |-> "",
                   type       |-> group.type,
                   count      |-> Len(group.nodes),
                   isHeader   |-> TRUE],
     style    |-> [width |-> columnsPerRow * horizontalSpacing - 50, height |-> 40]]

\* the inner forEach of createMatrixLayout, for one group
PlaceGroup(group, currentY, columnsPerRow) ==
    [i \in DOMAIN group.nodes |->
        LET row  == (i - 1) \div columnsPerRow
            col  == (i - 1) % columnsPerRow
            size == calculateNodeSize(group.nodes[i],
                       [direction |-> "TB", nodeWidth |-> nodeWidth,
                        nodeHeight |-> nodeHeight, rankSep |-> 150, nodeSep |-> 80])
        IN  [group.nodes[i] EXCEPT
                !.position = [x |-> startX + col * horizontalSpacing,
                              y |-> currentY + row * verticalSpacing],
                !.style = [@ EXCEPT !.width = size.width, !.height = size.height]]]

\* the outer forEach of createMatrixLayout, from group g on; y is currentY
\* at the end of the previous round
RECURSIVE PlaceGroups(_, _, _, _, _)
PlaceGroups(groups, g, y, columnsPerRow, layoutId) ==
    IF g > Len(groups) THEN <<>>
    ELSE LET currentY == IF g > 1 THEN y + groupSpacing ELSE y
             rowsUsed == (Len(groups[g].nodes) + columnsPerRow - 1) \div columnsPerRow
         IN  <<headerNode(groups[g], g - 1, currentY, columnsPerRow, layoutId)>>
             \o PlaceGroup(groups[g], currentY, columnsPerRow)
             \o PlaceGroups(groups, g + 1, currentY + rowsUsed * verticalSpacing,
                            columnsPerRow, layoutId)

\* layoutId is the value of Math.random().toString(36).substr(2, 9)
createMatrixLayout(nodes, edgeList, columnsPerRow, layoutId) ==
    IF Len(nodes) = 0 THEN nodes
    ELSE PlaceGroups(organizeNodesByType(nodes), 1, startY, columnsPerRow, layoutId)

\* a mutant of autoLayout: a single node goes through the grid as well
autoLayout_GridForOneNode(nodes, edgeList, layoutId) ==
    IF Len(nodes) = 0 THEN nodes
    ELSE createMatrixLayout(nodes, edgeList, 5, layoutId)

autoLayout(nodes, edgeList, layoutId) ==
    IF Len(nodes) = 0 THEN nodes
    ELSE IF Len(nodes) = 1
    THEN <<[nodes[1] EXCEPT !.position = [x |-> 200, y |-> 200]]>>
    ELSE createMatrixLayout(nodes, edgeList, 5, layoutId)

\* autoLayout of the layout engine that has no grid layout; the comparison
\* edgeCount / nodeCount < 1.5 is made on whole numbers
autoLayoutDagre(nodes, edgeList, placement) ==
    LET nodeCount == Len(nodes)
        edgeCount == Len(edgeList)
    IN  IF nodeCount = 0 THEN nodes
        ELSE IF nodeCount = 1
        THEN <<[nodes[1] EXCEPT !.position = [x |-> 200, y |-> 200]]>>
        ELSE IF nodeCount <= 6 /\ edgeCount <= 8
        THEN createCircularLayout(nodes, edgeList, placement)
        ELSE IF 2 * edgeCount < 3 * nodeCount /\ nodeCount > 8
        THEN createHorizontalLayout(nodes, edgeList, placement)
        ELSE createHierarchicalLayout(nodes, edgeList, placement)

buildReactFlowGraph(data, layoutId) ==
    LET nodes    == [i \in DOMAIN data.functions |-> createFunctionNode(data.functions[i])]
        edgeList == createFunctionEdges(data.calls)
    IN  [nodes |-> autoLayout(nodes, edgeList, layoutId), edges |-> edgeList]

----------------------------------------------------------------------------
(* graphBuilder.ts: filterGraph and simplifyGraph *)

\* Array.prototype.filter on the ids of a Set
NodesWithIdIn(nodes, ids) == SelectSeq(nodes, LAMBDA node : node.id \in ids)

EdgesWithin(edgeList, ids) ==
    SelectSeq(edgeList, LAMBDA edge : edge.source \in ids /\ edge.target \in ids)

\* the callback of graphData.nodes.filter in filterGraph
PassesFilter(node, filter) ==
    LET data == node.data
        isMethod == Includes(data.label, ".")
    IN  IF filter.showExported # <<>> /\ data.isExported # filter.showExported[1]
        THEN FALSE
        ELSE IF filter.showMethods # <<>> /\ isMethod # filter.showMethods[1]
        THEN FALSE
        ELSE IF filter.showAsync # <<>> /\ data.isAsync # filter.showAsync[1]
        THEN FALSE
        ELSE IF filter.minComplexity # <<>>
                /\ data.complexity < filter.minComplexity[1]
        THEN FALSE
        ELSE IF filter.maxComplexity # <<>>
                /\ data.complexity > filter.maxComplexity[1]
        THEN FALSE
        ELSE TRUE

filterGraph_KeepsEdgesOfSource(graphData, filter) ==
    LET filteredNodes == SelectSeq(graphData.nodes,
                                   LAMBDA node : PassesFilter(node, filter))
        nodeIds == IdsOf(filteredNodes)
    IN  [nodes |-> filteredNodes,
         edges |-> SelectSeq(graphData.edges, LAMBDA edge : edge.source \in nodeIds)]

filterGraph(graphData, filter) ==
    LET filteredNodes == SelectSeq(graphData.nodes,
                                   LAMBDA node : PassesFilter(node, filter))
        nodeIds == IdsOf(filteredNodes)
        filteredEdges == EdgesWithin(graphData.edges, nodeIds)
    IN  [nodes |-> filteredNodes, edges |-> filteredEdges]

\* the ids that edges lead to from the ids in `from`, in at most `hops` steps
RECURSIVE CalledWithin(_, _, _)
CalledWithin(edgeList, from, hops) ==
    IF hops = 0 THEN from
    ELSE LET next == from \cup {edgeList[i].target :
                                   i \in {j \in DOMAIN edgeList :
                                              edgeList[j].source \in from}}
         IN  CalledWithin(edgeList, next, hops - 1)

simplifyGraph_AllDependencies(graphData) ==
    LET exportedNodes == SelectSeq(graphData.nodes,
                                   LAMBDA node : node.data.isExported)
        relevantNodeIds == CalledWithin(graphData.edges, IdsOf(exportedNodes),
                                        Len(graphData.nodes))
    IN  [nodes |-> NodesWithIdIn(graphData.nodes, relevantNodeIds),
         edges |-> EdgesWithin(graphData.edges, relevantNodeIds)]

simplifyGraph_EdgesAmongExported(graphData) ==
    LET exportedNodes == SelectSeq(graphData.nodes,
                                   LAMBDA node : node.data.isExported)
        exportedNodeIds == IdsOf(exportedNodes)
        calledByExported ==
            {graphData.edges[i].target :
                i \in {j \in DOMAIN graphData.edges :
                          graphData.edges[j].source \in exportedNodeIds}}
        relevantNodeIds == exportedNodeIds \cup calledByExported
    IN  [nodes |-> NodesWithIdIn(graphData.nodes, relevantNodeIds),
         edges |-> EdgesWithin(graphData.edges, exportedNodeIds)]

simplifyGraph(graphData) ==
    LET exportedNodes == SelectSeq(graphData.nodes,
                                   LAMBDA node : node.data.isExported)
        exportedNodeIds == IdsOf(exportedNodes)
        calledByExported ==
            {graphData.edges[i].target :
                i \in {j \in DOMAIN graphData.edges :
                          graphData.edges[j].source \in exportedNodeIds}}
        relevantNodeIds == exportedNodeIds \cup calledByExported
        simplifiedNodes == NodesWithIdIn(graphData.nodes, relevantNodeIds)
        simplifiedEdges == EdgesWithin(graphData.edges, relevantNodeIds)
    IN  [nodes |-> simplifiedNodes, edges |-> simplifiedEdges]

----------------------------------------------------------------------------
(* createFunctionEdges applied to a list of FunctionCall records *)

MaxCalls == 3

\* names as the parser produces them: a plain function, a method, a name
\* whose node id collides with the method's, and a name isAsyncCall matches
EdgeNames == {<<"f">>, <<"C", ".", "m">>, <<"C", "_", "m">>, <<"t","h","e","n">>}

CallPairs == EdgeNames \X EdgeNames

\* calls in source order: the i-th call is on line i
CallsOfPairs(pairs) ==
    [i \in DOMAIN pairs |->
        [caller |-> pairs[i][1], callee |-> pairs[i][2], lineNumber |-> i]]

EdgesInit ==
    /\ \E n \in 0..MaxCalls : \E pairs \in SeqsOfLen(CallPairs, n) :
          edgeCalls = CallsOfPairs(pairs)
    /\ edges = <<>>
    /\ edgePc = "ready"
    \* nothing else is running
    /\ ast = <<>>
    /\ functionNames = <<>>
    /\ idx = 1
    /\ open = <<>>
    /\ currentFunction = NoName
    /\ calls = <<>>
    /\ code = IdleCode
    /\ pc = "idle"
    /\ attempts = <<>>
    /\ parsed = NoTree
    /\ result = EmptyResult
    /\ parsedData = NoParsedData
    /\ graph = NoGraph
    /\ graphAgain = NoGraph
    /\ graphPc = "idle"
    /\ layoutInput = NoGraph
    /\ layoutOutput = <<>>
    /\ layoutEntry = "idle"
    /\ transformInput = NoGraph
    /\ transformFilter = NoFilter
    /\ transformOutput = NoGraph
    /\ transformEntry = "idle"
    /\ visitedPaths = <<>>
    /\ extracted = <<>>
    /\ extractPc = "idle"
    /\ nodeArgument = NoFunctionData
    /\ functionNode = NoNode
    /\ nodePc = "idle"
    /\ reqAst = <<>>
    /\ reqIdx = <<>>
    /\ reqOpen = <<>>
    /\ trackers = <<>>
    /\ reqCalls = <<>>
    /\ reqPc = <<>>
    /\ now = 0
    /\ rateLimitMap = <<>>
    /\ admitted = <<>>
    /\ response = NoResponse
    /\ urlInput = InitialInput
    /\ home = InitialHome
    /\ run = NoRun
    /\ reported = <<>>
    /\ analyzed = <<>>
    /\ parseRequest = "none"
    /\ afterReset = FALSE
    /\ activations = 0

CreateFunctionEdges ==
    /\ edgePc = "ready"
    /\ edges' = createFunctionEdges(edgeCalls)
    /\ edgePc' = "done"
    /\ UNCHANGED edgeCalls
    /\ UNCHANGED notEdgeVars

EdgesNext == CreateFunctionEdges

SpecEdges == EdgesInit /\ [][EdgesNext]_vars

----------------------------------------------------------------------------
(* buildReactFlowGraph applied, twice, to the outcome of a parse *)

MaxFunctions == 3

Param(n, ty) == [name |-> n, type |-> ty]

FunctionData(n, ps, rt, a, e) ==
    [name |-> n, parameters |-> ps, returnType |-> rt, async |-> a, exported |-> e]

\* a plain function without parameters, an exported function of the same
\* name, an async function, a method, and a function whose sanitized name is
\* the method's
FunctionPool ==
    {FunctionData(<<"f">>, <<>>, VoidType, FALSE, FALSE),
     FunctionData(<<"f">>, <<Param(<<"x">>, NumberType)>>, AnyType, FALSE, TRUE),
     FunctionData(<<"g">>, <<Param(<<"x">>, AnyType)>>, <<"A", "|", "B">>, TRUE, FALSE),
     FunctionData(<<"C", ".", "m">>, <<>>, VoidType, FALSE, FALSE),
     FunctionData(<<"C", "_", "m">>, <<Param(<<"x">>, NumberType)>>, VoidType, FALSE, FALSE)}

\* the calls of a parse outcome are between names of its functions: none,
\* one call, or the same call made twice
CallChoices(functions) ==
    LET names == {functions[i].name : i \in DOMAIN functions}
    IN  {<<>>} \cup {CallsOfPairs(<<p>>) : p \in names \X names}
               \cup {CallsOfPairs(<<p, p>>) : p \in names \X names}

\* the values Math.random().toString(36).substr(2, 9) takes in two runs
LayoutIds == {<<"k", "3", "q">>, <<"z", "0", "7">>}

GraphInit ==
    /\ \E n \in 0..MaxFunctions : \E functions \in SeqsOfLen(FunctionPool, n) :
          \E callList \in CallChoices(functions) :
             parsedData = [functions |-> functions, calls |-> callList]
    /\ graph = NoGraph
    /\ graphAgain = NoGraph
    /\ graphPc = "ready"
    \* nothing else is running
    /\ ast = <<>>
    /\ functionNames = <<>>
    /\ idx = 1
    /\ open = <<>>
    /\ currentFunction = NoName
    /\ calls = <<>>
    /\ code = IdleCode
    /\ pc = "idle"
    /\ attempts = <<>>
    /\ parsed = NoTree
    /\ result = EmptyResult
    /\ edgeCalls = <<>>
    /\ edges = <<>>
    /\ edgePc = "idle"
    /\ layoutInput = NoGraph
    /\ layoutOutput = <<>>
    /\ layoutEntry = "idle"
    /\ transformInput = NoGraph
    /\ transformFilter = NoFilter
    /\ transformOutput = NoGraph
    /\ transformEntry = "idle"
    /\ visitedPaths = <<>>
    /\ extracted = <<>>
    /\ extractPc = "idle"
    /\ nodeArgument = NoFunctionData
    /\ functionNode = NoNode
    /\ nodePc = "idle"
    /\ reqAst = <<>>
    /\ reqIdx = <<>>
    /\ reqOpen = <<>>
    /\ trackers = <<>>
    /\ reqCalls = <<>>
    /\ reqPc = <<>>
    /\ now = 0
    /\ rateLimitMap = <<>>
    /\ admitted = <<>>
    /\ response = NoResponse
    /\ urlInput = InitialInput
    /\ home = InitialHome
    /\ run = NoRun
    /\ reported = <<>>
    /\ analyzed = <<>>
    /\ parseRequest = "none"
    /\ afterReset = FALSE
    /\ activations = 0

BuildReactFlowGraph ==
    /\ graphPc = "ready"
    /\ \E layoutId \in LayoutIds : graph' = buildReactFlowGraph(parsedData, layoutId)
    /\ graphPc' = "built"
    /\ UNCHANGED <<parsedData, graphAgain>>
    /\ UNCHANGED notGraphVars

BuildReactFlowGraphAgain ==
    /\ graphPc = "built"
    /\ \E layoutId \in LayoutIds : graphAgain' = buildReactFlowGraph(parsedData, layoutId)
    /\ graphPc' = "rebuilt"
    /\ UNCHANGED <<parsedData, graph>>
    /\ UNCHANGED notGraphVars

GraphNext ==
    \/ BuildReactFlowGraph
    \/ BuildReactFlowGraphAgain

SpecGraph == GraphInit /\ [][GraphNext]_vars

----------------------------------------------------------------------------
(* The layout entry points applied to a list of nodes *)

MaxLayoutNodes == 7

\* the nodes of createFunctionNode a layout is given: a plain function and
\* an exported one
LayoutPool ==
    {createFunctionNode(FunctionData(<<"f">>, <<Param(<<"x">>, NumberType)>>,
                                     VoidType, FALSE, FALSE)),
     createFunctionNode(FunctionData(<<"g">>, <<>>, AnyType, FALSE, TRUE))}

\* FlowVisualizer lays out the nodes of a graph again, and these start with
\* a header when an earlier grid layout made them
EarlierHeaders ==
    {<<>>,
     <<headerNode([type |-> "exported", title |-> typeTitles("exported"),
                   nodes |-> <<0>>], 0, startY, 5, <<"k", "3", "q">>)>>}

\* an edge from the first node to the last when there are two
EdgesAmong(nodes) ==
    IF Len(nodes) < 2 THEN <<>>
    ELSE createFunctionEdges(CallsOfPairs(
             <<<<nodes[1].data.label, nodes[Len(nodes)].data.label>>>>))

\* centres dagre may give a node
DagreCentres == {[x |-> 400, y |-> 200], [x |-> 1000, y |-> 600]}

Placements(nodes) == [IdsOf(nodes) -> DagreCentres]

\* the options FlowVisualizer passes, and none
OptionChoices ==
    {[direction |-> "TB"],
     [direction |-> "LR", nodeWidth |-> 100, nodeHeight |-> 80,
      rankSep |-> 150, nodeSep |-> 100]}

LayoutInit ==
    /\ \E n \in 0..MaxLayoutNodes : \E nodes \in SeqsOfLen(LayoutPool, n) :
          \E headers \in EarlierHeaders :
             layoutInput = [nodes |-> headers \o nodes,
                            edges |-> EdgesAmong(headers \o nodes)]
    /\ layoutOutput = <<>>
    /\ layoutEntry = "ready"
    \* nothing else is running
    /\ ast = <<>>
    /\ functionNames = <<>>
    /\ idx = 1
    /\ open = <<>>
    /\ currentFunction = NoName
    /\ calls = <<>>
    /\ code = IdleCode
    /\ pc = "idle"
    /\ attempts = <<>>
    /\ parsed = NoTree
    /\ result = EmptyResult
    /\ edgeCalls = <<>>
    /\ edges = <<>>
    /\ edgePc = "idle"
    /\ parsedData = NoParsedData
    /\ graph = NoGraph
    /\ graphAgain = NoGraph
    /\ graphPc = "idle"
    /\ transformInput = NoGraph
    /\ transformFilter = NoFilter
    /\ transformOutput = NoGraph
    /\ transformEntry = "idle"
    /\ visitedPaths = <<>>
    /\ extracted = <<>>
    /\ extractPc = "idle"
    /\ nodeArgument = NoFunctionData
    /\ functionNode = NoNode
    /\ nodePc = "idle"
    /\ reqAst = <<>>
    /\ reqIdx = <<>>
    /\ reqOpen = <<>>
    /\ trackers = <<>>
    /\ reqCalls = <<>>
    /\ reqPc = <<>>
    /\ now = 0
    /\ rateLimitMap = <<>>
    /\ admitted = <<>>
    /\ response = NoResponse
    /\ urlInput = InitialInput
    /\ home = InitialHome
    /\ run = NoRun
    /\ reported = <<>>
    /\ analyzed = <<>>
    /\ parseRequest = "none"
    /\ afterReset = FALSE
    /\ activations = 0

LayoutNodes ==
    /\ layoutEntry = "ready"
    /\ \E options \in OptionChoices : \E placement \in Placements(layoutInput.nodes) :
          layoutOutput' = layoutNodes(layoutInput.nodes, layoutInput.edges,
                                      options, placement)
    /\ layoutEntry' = "layoutNodes"
    /\ UNCHANGED layoutInput
    /\ UNCHANGED notLayoutVars

CreateHierarchicalLayout ==
    /\ layoutEntry = "ready"
    /\ \E placement \in Placements(layoutInput.nodes) :
          layoutOutput' = createHierarchicalLayout(layoutInput.nodes,
                                                   layoutInput.edges, placement)
    /\ layoutEntry' = "createHierarchicalLayout"
    /\ UNCHANGED layoutInput
    /\ UNCHANGED notLayoutVars

CreateHorizontalLayout ==
    /\ layoutEntry = "ready"
    /\ \E placement \in Placements(layoutInput.nodes) :
          layoutOutput' = createHorizontalLayout(layoutInput.nodes,
                                                 layoutInput.edges, placement)
    /\ layoutEntry' = "createHorizontalLayout"
    /\ UNCHANGED layoutInput
    /\ UNCHANGED notLayoutVars

CreateCircularLayout ==
    /\ layoutEntry = "ready"
    /\ \E placement \in Placements(layoutInput.nodes) :
          layoutOutput' = createCircularLayout(layoutInput.nodes,
                                               layoutInput.edges, placement)
    /\ layoutEntry' = "createCircularLayout"
    /\ UNCHANGED layoutInput
    /\ UNCHANGED notLayoutVars

CreateMatrixLayout ==
    /\ layoutEntry = "ready"
    /\ \E columnsPerRow \in {2, 5} : \E layoutId \in LayoutIds :
          layoutOutput' = createMatrixLayout(layoutInput.nodes, layoutInput.edges,
                                             columnsPerRow, layoutId)
    /\ layoutEntry' = "createMatrixLayout"
    /\ UNCHANGED layoutInput
    /\ UNCHANGED notLayoutVars

AutoLayout ==
    /\ layoutEntry = "ready"
    /\ \E layoutId \in LayoutIds :
          layoutOutput' = autoLayout(layoutInput.nodes, layoutInput.edges, layoutId)
    /\ layoutEntry' = "autoLayout"
    /\ UNCHANGED layoutInput
    /\ UNCHANGED notLayoutVars

\* autoLayout of the layout engine that has no grid layout
AutoLayoutDagre ==
    /\ layoutEntry = "ready"
    /\ \E placement \in Placements(layoutInput.nodes) :
          layoutOutput' = autoLayoutDagre(layoutInput.nodes, layoutInput.edges, placement)
    /\ layoutEntry' = "autoLayoutDagre"
    /\ UNCHANGED layoutInput
    /\ UNCHANGED notLayoutVars

LayoutNext ==
    \/ LayoutNodes
    \/ CreateHierarchicalLayout
    \/ CreateHorizontalLayout
    \/ CreateCircularLayout
    \/ CreateMatrixLayout
    \/ AutoLayout
    \/ AutoLayoutDagre

SpecLayout == LayoutInit /\ [][LayoutNext]_vars

----------------------------------------------------------------------------
(* filterGraph and simplifyGraph applied to a graph of function nodes *)

MaxTransformNodes == 3

MaxTransformCalls == 2

\* an exported function, an async function with a union return type, a
\* method of an exported class, and a function that is neither exported nor
\* async and whose node id is the method's
TransformPool ==
    <<FunctionData(<<"f">>, <<Param(<<"x">>, NumberType)>>, AnyType, FALSE, TRUE),
      FunctionData(<<"g">>, <<Param(<<"x">>, AnyType)>>, <<"A", "|", "B">>, TRUE, FALSE),
      FunctionData(<<"C", ".", "m">>, <<>>, VoidType, FALSE, TRUE),
      FunctionData(<<"C", "_", "m">>, <<>>, VoidType, FALSE, FALSE)>>

\* the members of a list at the positions in `chosen`, in the list's order
Chosen(list, chosen) ==
    LET RECURSIVE From(_)
        From(i) == IF i > Len(list) THEN <<>>
                   ELSE IF i \in chosen THEN <<list[i]>> \o From(i + 1)
                   ELSE From(i + 1)
    IN  From(1)

UpTo(S, n) == {T \in SUBSET S : Cardinality(T) <= n}

\* the calls between the functions of a list: caller and callee are names of
\* the list, and the calls are in the order of their caller and callee
CallsAmong(functions, chosen) ==
    LET n == Len(functions)
        allPairs == [r \in 1..(n * n) |->
                        <<functions[((r - 1) \div n) + 1].name,
                          functions[((r - 1) % n) + 1].name>>]
    IN  CallsOfPairs(Chosen(allPairs, chosen))

\* the graph buildReactFlowGraph's two builders make of functions and calls
GraphOf(functions, callList) ==
    [nodes |-> [i \in DOMAIN functions |-> createFunctionNode(functions[i])],
     edges |-> createFunctionEdges(callList)]

Optional(S) == {<<>>} \cup {<<v>> : v \in S}

\* complexity limits at and next to the scores of the pool
ComplexityLimits == {2, 3}

GraphFilters ==
    [showExported : Optional(BOOLEAN), showAsync : Optional(BOOLEAN),
     showMethods : Optional(BOOLEAN),
     minComplexity : Optional(ComplexityLimits),
     maxComplexity : Optional(ComplexityLimits)]

TransformInit ==
    /\ \E picked \in UpTo(DOMAIN TransformPool, MaxTransformNodes) :
          LET functions == Chosen(TransformPool, picked)
              n == Len(functions)
          IN  \E chosen \in UpTo(1..(n * n), MaxTransformCalls) :
                 transformInput = GraphOf(functions, CallsAmong(functions, chosen))
    /\ transformFilter = NoFilter
    /\ transformOutput = NoGraph
    /\ transformEntry = "ready"
    \* nothing else is running
    /\ ast = <<>>
    /\ functionNames = <<>>
    /\ idx = 1
    /\ open = <<>>
    /\ currentFunction = NoName
    /\ calls = <<>>
    /\ code = IdleCode
    /\ pc = "idle"
    /\ attempts = <<>>
    /\ parsed = NoTree
    /\ result = EmptyResult
    /\ edgeCalls = <<>>
    /\ edges = <<>>
    /\ edgePc = "idle"
    /\ parsedData = NoParsedData
    /\ graph = NoGraph
    /\ graphAgain = NoGraph
    /\ graphPc = "idle"
    /\ layoutInput = NoGraph
    /\ layoutOutput = <<>>
    /\ layoutEntry = "idle"
    /\ visitedPaths = <<>>
    /\ extracted = <<>>
    /\ extractPc = "idle"
    /\ nodeArgument = NoFunctionData
    /\ functionNode = NoNode
    /\ nodePc = "idle"
    /\ reqAst = <<>>
    /\ reqIdx = <<>>
    /\ reqOpen = <<>>
    /\ trackers = <<>>
    /\ reqCalls = <<>>
    /\ reqPc = <<>>
    /\ now = 0
    /\ rateLimitMap = <<>>
    /\ admitted = <<>>
    /\ response = NoResponse
    /\ urlInput = InitialInput
    /\ home = InitialHome
    /\ run = NoRun
    /\ reported = <<>>
    /\ analyzed = <<>>
    /\ parseRequest = "none"
    /\ afterReset = FALSE
    /\ activations = 0

FilterGraph ==
    /\ transformEntry = "ready"
    /\ \E filter \in GraphFilters :
          /\ transformFilter' = filter
          /\ transformOutput' = filterGraph(transformInput, filter)
    /\ transformEntry' = "filterGraph"
    /\ UNCHANGED transformInput
    /\ UNCHANGED notTransformVars

SimplifyGraph ==
    /\ transformEntry = "ready"
    /\ transformOutput' = simplifyGraph(transformInput)
    /\ transformEntry' = "simplifyGraph"
    /\ UNCHANGED <<transformInput, transformFilter>>
    /\ UNCHANGED notTransformVars

TransformNext ==
    \/ FilterGraph
    \/ SimplifyGraph

SpecTransform == TransformInit /\ [][TransformNext]_vars

----------------------------------------------------------------------------
(* extractFunctions applied to the function-like nodes of a source file *)

MaxVisited == 2

ExportNamed == AstNode("ExportNamedDeclaration", NoName, "")

ExportDefault == AstNode("ExportDefaultDeclaration", NoName, "")

\* where a statement stands: at the top level, or in the body of a function
\* that is or is not exported
TopLevel == <<AstNode("Program", NoName, "")>>

InFunctionBody ==
    {TopLevel \o wrapper \o <<AstNode("FunctionDeclaration", <<"g">>, ""),
                              AstNode("BlockStatement", NoName, "")>> :
        wrapper \in {<<>>, <<ExportNamed>>}}

\* declarations that `export` and `export default` can both wrap, from the
\* statement down to the visited node:
\*   function f() {}        class C { m() {} }
BothWrappable ==
    {<<AstNode("FunctionDeclaration", <<"f">>, "")>>,
     <<AstNode("ClassDeclaration", <<"C">>, ""), AstNode("ClassBody", NoName, ""),
       AstNode("ClassMethod", <<"m">>, "")>>}

\* declarations only `export` can wrap:
\*   const f = () => {}     const x = 1
\*   const D = class C { m() {} }      const o = { m() {} }
NamedWrappable ==
    {<<AstNode("VariableDeclaration", NoName, ""),
       AstNode("VariableDeclarator", <<"f">>, "function")>>,
     <<AstNode("VariableDeclaration", NoName, ""),
       AstNode("VariableDeclarator", <<"x">>, "other")>>,
     <<AstNode("VariableDeclaration", NoName, ""),
       AstNode("VariableDeclarator", <<"D">>, "other"),
       AstNode("ClassExpression", <<"C">>, ""), AstNode("ClassBody", NoName, ""),
       AstNode("ClassMethod", <<"m">>, "")>>,
     <<AstNode("VariableDeclaration", NoName, ""),
       AstNode("VariableDeclarator", <<"o">>, "other"),
       AstNode("ObjectExpression", NoName, ""),
       AstNode("ObjectMethod", <<"m">>, "")>>}

\* declarations only `export default` can wrap:
\*   function () {}         <b k={() => {}} />
DefaultWrappable ==
    {<<AstNode("FunctionDeclaration", NoName, "")>>,
     <<AstNode("JSXElement", <<"b">>, ""), AstNode("JSXAttribute", <<"k">>, ""),
       AstNode("JSXExpressionContainer", NoName, "function")>>}

\* statements that nothing wraps:
\*   f(() => {})            (<b k={() => {}} />)
Unwrapped ==
    {<<AstNode("ExpressionStatement", NoName, ""),
       AstNode("CallExpression", <<"f">>, "function")>>,
     <<AstNode("ExpressionStatement", NoName, ""),
       AstNode("JSXElement", <<"b">>, ""), AstNode("JSXAttribute", <<"k">>, ""),
       AstNode("JSXExpressionContainer", NoName, "function")>>}

\* an export statement stands at the top level only
VisitedPaths ==
    LET plain == BothWrappable \cup NamedWrappable \cup Unwrapped
    IN  {NodePath(at[1] \o at[2]) : at \in ({TopLevel} \cup InFunctionBody) \X plain}
        \cup {NodePath(TopLevel \o <<ExportNamed>> \o d) :
                 d \in BothWrappable \cup NamedWrappable}
        \cup {NodePath(TopLevel \o <<ExportDefault>> \o d) :
                 d \in BothWrappable \cup DefaultWrappable}

ExtractInit ==
    /\ \E n \in 0..MaxVisited : visitedPaths \in SeqsOfLen(VisitedPaths, n)
    /\ extracted = <<>>
    /\ extractPc = "ready"
    \* nothing else is running
    /\ ast = <<>>
    /\ functionNames = <<>>
    /\ idx = 1
    /\ open = <<>>
    /\ currentFunction = NoName
    /\ calls = <<>>
    /\ code = IdleCode
    /\ pc = "idle"
    /\ attempts = <<>>
    /\ parsed = NoTree
    /\ result = EmptyResult
    /\ edgeCalls = <<>>
    /\ edges = <<>>
    /\ edgePc = "idle"
    /\ parsedData = NoParsedData
    /\ graph = NoGraph
    /\ graphAgain = NoGraph
    /\ graphPc = "idle"
    /\ layoutInput = NoGraph
    /\ layoutOutput = <<>>
    /\ layoutEntry = "idle"
    /\ transformInput = NoGraph
    /\ transformFilter = NoFilter
    /\ transformOutput = NoGraph
    /\ transformEntry = "idle"
    /\ nodeArgument = NoFunctionData
    /\ functionNode = NoNode
    /\ nodePc = "idle"
    /\ reqAst = <<>>
    /\ reqIdx = <<>>
    /\ reqOpen = <<>>
    /\ trackers = <<>>
    /\ reqCalls = <<>>
    /\ reqPc = <<>>
    /\ now = 0
    /\ rateLimitMap = <<>>
    /\ admitted = <<>>
    /\ response = NoResponse
    /\ urlInput = InitialInput
    /\ home = InitialHome
    /\ run = NoRun
    /\ reported = <<>>
    /\ analyzed = <<>>
    /\ parseRequest = "none"
    /\ afterReset = FALSE
    /\ activations = 0

ExtractFunctions ==
    /\ extractPc = "ready"
    /\ extracted' = extractFunctionsOfPaths(visitedPaths)
    /\ extractPc' = "done"
    /\ UNCHANGED visitedPaths
    /\ UNCHANGED notExtractVars

ExtractNext == ExtractFunctions

SpecExtract == ExtractInit /\ [][ExtractNext]_vars

----------------------------------------------------------------------------
(* createFunctionNode applied to a FunctionData record *)

\* enough parameters for the score to pass 10
MaxParameters == 20

ParametersOfLen(n) == [i \in 1..n |-> Param(<<"x">>, NumberType)]

ReturnTypes == {VoidType, <<"A", "|", "B">>, <<"A", "&", "B">>}

NodeInit ==
    /\ \E name \in {<<"f">>, <<"C", ".", "m">>} : \E n \in 0..MaxParameters :
          \E returnType \in ReturnTypes : \E async \in BOOLEAN : \E exported \in BOOLEAN :
             nodeArgument = FunctionData(name, ParametersOfLen(n), returnType,
                                         async, exported)
    /\ functionNode = NoNode
    /\ nodePc = "ready"
    \* nothing else is running
    /\ ast = <<>>
    /\ functionNames = <<>>
    /\ idx = 1
    /\ open = <<>>
    /\ currentFunction = NoName
    /\ calls = <<>>
    /\ code = IdleCode
    /\ pc = "idle"
    /\ attempts = <<>>
    /\ parsed = NoTree
    /\ result = EmptyResult
    /\ edgeCalls = <<>>
    /\ edges = <<>>
    /\ edgePc = "idle"
    /\ parsedData = NoParsedData
    /\ graph = NoGraph
    /\ graphAgain = NoGraph
    /\ graphPc = "idle"
    /\ layoutInput = NoGraph
    /\ layoutOutput = <<>>
    /\ layoutEntry = "idle"
    /\ transformInput = NoGraph
    /\ transformFilter = NoFilter
    /\ transformOutput = NoGraph
    /\ transformEntry = "idle"
    /\ visitedPaths = <<>>
    /\ extracted = <<>>
    /\ extractPc = "idle"
    /\ reqAst = <<>>
    /\ reqIdx = <<>>
    /\ reqOpen = <<>>
    /\ trackers = <<>>
    /\ reqCalls = <<>>
    /\ reqPc = <<>>
    /\ now = 0
    /\ rateLimitMap = <<>>
    /\ admitted = <<>>
    /\ response = NoResponse
    /\ urlInput = InitialInput
    /\ home = InitialHome
    /\ run = NoRun
    /\ reported = <<>>
    /\ analyzed = <<>>
    /\ parseRequest = "none"
    /\ afterReset = FALSE
    /\ activations = 0

CreateFunctionNode ==
    /\ nodePc = "ready"
    /\ functionNode' = createFunctionNode(nodeArgument)
    /\ nodePc' = "done"
    /\ UNCHANGED nodeArgument
    /\ UNCHANGED notNodeVars

NodeNext == CreateFunctionNode

SpecNode == NodeInit /\ [][NodeNext]_vars

----------------------------------------------------------------------------
(* Claims about createFunctionEdges *)

PairOfCall(call) == <<call.caller, call.callee>>

PairsIn(callList) == {PairOfCall(callList[i]) : i \in DOMAIN callList}

Occurrences(callList, p) ==
    Cardinality({i \in DOMAIN callList : PairOfCall(callList[i]) = p})

EdgeIsFor(e, p) ==
    /\ e.data.calls # <<>>
    /\ \A j \in DOMAIN e.data.calls : PairOfCall(e.data.calls[j]) = p

\* C3: createFunctionEdges produces exactly one edge per distinct
\* (caller, callee) pair occurring in calls; the edge's callCount is the
\* number of records with that pair, and its label is "<count>x" when the
\* count is greater than 1 and absent when the count is 1.
C3_OneEdgePerPair ==
    edgePc = "done" =>
        /\ Len(edges) = Cardinality(PairsIn(edgeCalls))
        /\ \A p \in PairsIn(edgeCalls) :
              \E k \in DOMAIN edges :
                 /\ EdgeIsFor(edges[k], p)
                 /\ \A m \in DOMAIN edges : EdgeIsFor(edges[m], p) => m = k
                 /\ edges[k].data.callCount = Occurrences(edgeCalls, p)
                 /\ edges[k].label =
                       IF Occurrences(edgeCalls, p) > 1
                       THEN <<(<<"1","2","3","4","5","6","7","8","9">>)[
                                  Occurrences(edgeCalls, p)], "x">>
                       ELSE <<>>

\* a pair that occurs more than once next to a pair that occurs once, the
\* two having the same sanitized edge id
C3_Witness ==
    /\ edgePc = "done"
    /\ \E p, q \in PairsIn(edgeCalls) :
          /\ p # q
          /\ Occurrences(edgeCalls, p) > 1
          /\ Occurrences(edgeCalls, q) = 1
          /\ Sanitize(p[1]) = Sanitize(q[1])
          /\ Sanitize(p[2]) = Sanitize(q[2])
    /\ Len(edges) = 2

----------------------------------------------------------------------------
(* Claims about buildReactFlowGraph *)

\* C8: running buildReactFlowGraph twice on identical functions and calls
\* yields identical results: the same node ids in the same order, the same
\* edge ids, the same counts, the same data fields and the same positions.
C8_BuildTwiceSameGraph ==
    graphPc = "rebuilt" => graphAgain = graph

\* C9: buildReactFlowGraph returns exactly one node per FunctionRecord:
\* nodes.length equals functions.length for every input.
C9_OneNodePerFunction ==
    graphPc \in {"built", "rebuilt"} =>
        Len(graph.nodes) = Len(parsedData.functions)

\* the function nodes of the first graph, in order
FunctionNodes == SelectSeq(graph.nodes, LAMBDA n : ~n.data.isHeader)

\* three functions, two of them with the same node id, have been given
\* their nodes and headers
C9_Witness ==
    /\ graphPc = "built"
    /\ Len(parsedData.functions) = 3
    /\ \E i, j \in DOMAIN FunctionNodes : i # j /\ FunctionNodes[i].id = FunctionNodes[j].id
    /\ Len(graph.nodes) > Len(parsedData.functions)

----------------------------------------------------------------------------
(* Claims about the layout entry points *)

\* the bag of the ids of a list of nodes
IdBag(nodes) ==
    [id \in IdsOf(nodes) |-> Cardinality({i \in DOMAIN nodes : nodes[i].id = id})]

\* the entry point called has used the grid layout
UsedGrid ==
    \/ layoutEntry = "createMatrixLayout" /\ layoutInput.nodes # <<>>
    \/ layoutEntry = "autoLayout" /\ Len(layoutInput.nodes) >= 2

IsSectionHeader(node) == node.data.isHeader /\ node.type = "sectionHeader"

\* the groups of the grid layout that have a node of the input
GroupTypes == {PrimaryType(layoutInput.nodes[k]) : k \in DOMAIN layoutInput.nodes}

\* the ids the output has more often than the input
ExtraIds == IdBag(layoutOutput) (-) IdBag(layoutInput.nodes)

\* C10: for every layout entry point the ids of the output nodes other than
\* the section headers the layout added are, as a multiset, the ids of the
\* input nodes; the only extra nodes are the section headers of the grid
\* layout, one per non-empty group.
C10_LayoutKeepsNodes ==
    layoutEntry \notin {"idle", "ready"} =>
        /\ IdBag(layoutInput.nodes) \sqsubseteq IdBag(layoutOutput)
        /\ \A id \in BagToSet(ExtraIds) :
              \E i \in DOMAIN layoutOutput :
                 layoutOutput[i].id = id /\ IsSectionHeader(layoutOutput[i])
        /\ BagCardinality(ExtraIds) = IF UsedGrid THEN Cardinality(GroupTypes) ELSE 0
        /\ UsedGrid =>
              \A type \in GroupTypes :
                 \E i \in DOMAIN layoutOutput :
                    /\ IsSectionHeader(layoutOutput[i])
                    /\ layoutOutput[i].data.type = type
                    /\ BagIn(layoutOutput[i].id, ExtraIds)

\* the grid layout has laid out nodes of two groups, two of them with the
\* same id, and has added headers
C10_Witness ==
    /\ layoutEntry = "createMatrixLayout"
    /\ Cardinality(GroupTypes) >= 2
    /\ \E i, j \in DOMAIN layoutInput.nodes :
          i # j /\ layoutInput.nodes[i].id = layoutInput.nodes[j].id
    /\ Len(layoutOutput) = Len(layoutInput.nodes) + Cardinality(GroupTypes)

----------------------------------------------------------------------------
(* Claims about parseTypeScriptCode *)

Returned == pc = "done"

AllThreeFailed ==
    Len(attempts) = 3 /\ \A k \in DOMAIN attempts : ~attempts[k].ok

\* C4: in every returned outcome, whichever stage failed, a non-empty errors
\* list implies that functions and calls are both empty.
C4_ErrorsImplyNothingExtracted ==
    (Returned /\ result.errors # <<>>) =>
        (result.functions = <<>> /\ result.calls = <<>>)

\* C5: when all three parse attempts fail the outcome has exactly one error,
\* of type 'syntax', built from the error of the third attempt (its position,
\* and its message unless that is replaced by the fixed JSX text), and
\* functions and calls are empty.
C5_ThreeFailuresOneSyntaxError ==
    (Returned /\ AllThreeFailed) =>
        /\ Len(result.errors) = 1
        /\ result.errors[1].type = "syntax"
        /\ result.errors[1].line = attempts[3].error.pos
        /\ result.errors[1].column = attempts[3].error.pos
        /\ IF attempts[3].error.unexpectedToken /\ attempts[3].error.lt
           THEN result.errors[1].message.text = "JSX/TSX syntax detected"
           ELSE result.errors[1].message.of = attempts[3].error.origin
        /\ result.functions = <<>>
        /\ result.calls = <<>>

\* three failed attempts whose errors differ, reported
C5_Witness ==
    /\ Returned
    /\ AllThreeFailed
    /\ attempts[3].error.pos # attempts[1].error.pos
    /\ result.errors # <<>>

C6_Rejected ==
    \/ code.type \in {"undefined", "null", "object"}
    \/ code.type = "string" /\ (code.length = 0 \/ code.length > 500 * 1024)

\* C6: empty, null/undefined or non-string input and input longer than
\* 500*1024 characters yield exactly one 'validation' error, no functions, no
\* calls and no parse attempt; input of exactly 500*1024 characters passes
\* validation and is handed to the parser.
C6_ValidationBeforeParsing ==
    /\ C6_Rejected => /\ pc \in {"validate", "done"}
                      /\ attempts = <<>>
    /\ (C6_Rejected /\ Returned) =>
          /\ Len(result.errors) = 1
          /\ result.errors[1].type = "validation"
          /\ result.functions = <<>>
          /\ result.calls = <<>>
    /\ (code.type = "string" /\ code.length = 500 * 1024 /\ pc # "validate") =>
          /\ \A k \in DOMAIN result.errors : result.errors[k].type # "validation"
          /\ pc = "parse1" \/ attempts # <<>>

\* an over-long input has been answered
C6_Witness ==
    /\ Returned
    /\ code.type = "string"
    /\ code.length = 500 * 1024 + 1
    /\ result.errors # <<>>

\* an input of exactly the limit has reached the parser
C6_WitnessAtLimit ==
    /\ code.type = "string"
    /\ code.length = 500 * 1024
    /\ attempts # <<>>

FirstSuccess == CHOOSE k \in DOMAIN attempts : attempts[k].ok

\* C7: the grammars are tried in the order full -> JSX disabled -> minimal; a
\* later tier is attempted only after every earlier one failed; the tree of
\* the first tier that succeeds is the one the extraction uses; at most three
\* attempts are made.
C7_FallbackOrder ==
    /\ Len(attempts) <= 3
    /\ \A k \in DOMAIN attempts :
          /\ attempts[k].tier = k
          /\ attempts[k].grammar.jsx = (k = 1)
          /\ attempts[k].grammar.extensions = (k <= 2)
          /\ attempts[k].grammar.typescript
          /\ \A m \in 1..(k - 1) : ~attempts[m].ok
    /\ parsed # NoTree =>
          /\ \E k \in DOMAIN attempts : attempts[k].ok
          /\ parsed = [tier |-> FirstSuccess, tree |-> attempts[FirstSuccess].tree]
    /\ pc \in {"extractCalls", "extractMetadata"} =>
          result.functions = extractFunctions(attempts[FirstSuccess].tree)
    /\ pc = "extractMetadata" =>
          result.calls = extractFunctionCalls(attempts[FirstSuccess].tree,
                                              result.functions)

\* the second grammar succeeded after the first failed, and its tree gave
\* the functions of the outcome
C7_Witness ==
    /\ Returned
    /\ Len(attempts) = 2
    /\ attempts[2].ok
    /\ result.functions # <<>>
    /\ result.errors = <<>>

----------------------------------------------------------------------------
(* Claims about the call extractor *)

\* the named function whose body directly holds node j, when there is one
InNamedFunction(j) ==
    /\ ParentOf(ast, j) # 0
    /\ IsFunctionLike(ast[ParentOf(ast, j)])
    /\ getFunctionName(ast, ParentOf(ast, j)) # NoName

Recorded(caller, j) ==
    \E k \in DOMAIN calls :
        calls[k] = [caller |-> caller, callee |-> calledFunction(ast, j), site |-> j]

\* C1: every CallRecord has its caller and its callee among the names that
\* extractFunctions returned for the same tree, and a call whose resolved
\* callee is not among them pushes no record.
C1_CallsWithinFunctionNames ==
    /\ \A k \in DOMAIN calls :
          /\ calls[k].caller \in Range(functionNames)
          /\ calls[k].callee \in Range(functionNames)
    /\ \A j \in 1..(idx - 1) :
          (IsCall(ast[j]) /\ calledFunction(ast, j) \notin Range(functionNames))
             => \A k \in DOMAIN calls : calls[k].site # j

\* a finished traversal that pushed a record and also met, inside a tracked
\* function, a call that resolves to a name extractFunctions did not return
C1_Witness ==
    /\ TraversalDone
    /\ calls # <<>>
    /\ \E j \in DOMAIN ast :
          /\ IsCall(ast[j])
          /\ calledFunction(ast, j) # NoName
          /\ calledFunction(ast, j) \notin Range(functionNames)
          /\ InNamedFunction(j)
          /\ \A m \in (ParentOf(ast, j) + 1)..(j - 1) : ~IsFunctionLike(ast[m])

\* C2: when the traversal leaves a function nested in a named function the
\* tracker is the enclosing function again: a call in outer's body that comes
\* after a nested function definition is recorded with caller outer, and a
\* call in the nested function's own body is recorded with the nested
\* function as caller.
C2_TrackerRestoredAfterNested ==
    TraversalDone =>
        \A j \in DOMAIN ast :
            (/\ IsCall(ast[j])
             /\ InNamedFunction(j)
             /\ calledFunction(ast, j) \in Range(functionNames)
             /\ \/ \E s \in Children(ast, ParentOf(ast, j)) :
                      /\ s < j
                      /\ IsFunctionLike(ast[s])
                      /\ getFunctionName(ast, s) # NoName
                \/ \A m \in (ParentOf(ast, j) + 1)..(j - 1) : ~IsFunctionLike(ast[m]))
            => Recorded(getFunctionName(ast, ParentOf(ast, j)), j)

----------------------------------------------------------------------------
(* Claims about simplifyGraph and filterGraph *)

ExportedIds(graphData) ==
    {graphData.nodes[i].id :
        i \in {j \in DOMAIN graphData.nodes : graphData.nodes[j].data.isExported}}

\* the ids that an edge leads to from an exported node
DirectCallees(graphData) ==
    {graphData.edges[i].target :
        i \in {j \in DOMAIN graphData.edges :
                  graphData.edges[j].source \in ExportedIds(graphData)}}

\* the members of a list that satisfy a condition, as a bag
BagWhere(list, Keep(_)) ==
    LET kept == {i \in DOMAIN list : Keep(list[i])}
        values == {list[i] : i \in kept}
    IN  [v \in values |-> Cardinality({i \in kept : list[i] = v})]

BagOfList(list) == BagWhere(list, LAMBDA x : TRUE)

C12_SimplifyKeepsAllDependencies ==
    transformEntry = "simplifyGraph" =>
        LET keptIds == CalledWithin(transformInput.edges, ExportedIds(transformInput),
                                    Len(transformInput.nodes))
        IN  /\ BagOfList(transformOutput.nodes)
                 = BagWhere(transformInput.nodes, LAMBDA node : node.id \in keptIds)
            /\ BagOfList(transformOutput.edges)
                 = BagWhere(transformInput.edges,
                            LAMBDA edge : /\ edge.source \in keptIds
                                          /\ edge.target \in keptIds)

\* what a node has to be for a filter to keep it: each flag that is present
\* is the node's (true selects the exported, async or method nodes, false the
\* others), and the complexity is within the limits that are present
SatisfiesCriteria(node, filter) ==
    /\ filter.showExported # <<>> => node.data.isExported = filter.showExported[1]
    /\ filter.showAsync # <<>> => node.data.isAsync = filter.showAsync[1]
    /\ filter.showMethods # <<>> =>
          Includes(node.data.label, ".") = filter.showMethods[1]
    /\ filter.minComplexity # <<>> => node.data.complexity >= filter.minComplexity[1]
    /\ filter.maxComplexity # <<>> => node.data.complexity <= filter.maxComplexity[1]

----------------------------------------------------------------------------
(* Claims about the exported flag *)

\* the visited paths that push a FunctionData, in order: extracted[k] is the
\* record of the k-th of them
PushingPaths == SelectSeq(visitedPaths, LAMBDA path : VisitorPushes(path) # <<>>)

VisitedType(path) == path.chain[Len(path.chain)].type

\* the node `levels` above the visited node is an export statement
WrappedAt(path, levels) ==
    /\ Len(path.chain) > levels
    /\ path.chain[Len(path.chain) - levels].type
          \in {"ExportNamedDeclaration", "ExportDefaultDeclaration"}

\* the position in the path of the nearest enclosing class declaration, 0 if none
ClassDeclarationOf(path) ==
    Max({0} \cup {i \in DOMAIN path.chain : path.chain[i].type = "ClassDeclaration"})

\* C14: a class method's record has exported = true exactly when its
\* enclosing class declaration is the direct child of a named or default
\* export statement.
C14_MethodExportedWithClass ==
    extractPc = "done" =>
        \A k \in DOMAIN extracted :
            LET path == PushingPaths[k]
                class == ClassDeclarationOf(path)
            IN  VisitedType(path) = "ClassMethod" =>
                   (extracted[k].exported
                      <=> (class > 1 /\ WrappedAt(path, Len(path.chain) - class + 1)))

\* a method of an exported class has been extracted
C14_Witness ==
    /\ extractPc = "done"
    /\ \E k \in DOMAIN extracted :
          /\ VisitedType(PushingPaths[k]) = "ClassMethod"
          /\ ClassDeclarationOf(PushingPaths[k]) > 1
          /\ WrappedAt(PushingPaths[k],
                       Len(PushingPaths[k].chain) - ClassDeclarationOf(PushingPaths[k]) + 1)
          /\ extracted[k].name = <<"C", ".", "m">>

\* C15: the record of a named function declaration, and of a function or
\* arrow expression bound by a variable declaration, has exported = true
\* exactly when the declaration statement is the direct child of a named or
\* default export statement; the records of object methods, callback
\* arguments and JSX handlers have exported = false.
C15_DeclarationExportedWithStatement ==
    extractPc = "done" =>
        \A k \in DOMAIN extracted :
            LET path == PushingPaths[k]
            IN  CASE VisitedType(path) = "FunctionDeclaration" ->
                        extracted[k].exported <=> WrappedAt(path, 1)
                  [] VisitedType(path) = "VariableDeclarator" ->
                        extracted[k].exported <=> WrappedAt(path, 2)
                  [] VisitedType(path) \in {"ObjectMethod", "CallExpression",
                                            "JSXExpressionContainer"} ->
                        ~extracted[k].exported
                  [] OTHER -> TRUE

\* an exported `const f = () => {}` has been extracted
C15_Witness ==
    /\ extractPc = "done"
    /\ \E k \in DOMAIN extracted :
          /\ VisitedType(PushingPaths[k]) = "VariableDeclarator"
          /\ WrappedAt(PushingPaths[k], 2)
          /\ extracted[k].name = <<"f">>

----------------------------------------------------------------------------
(* Claims about the resolution of callee names *)

\* the named classes, declarations and expressions, that enclose node j
NamedClassesAround(j) ==
    {i \in Range(PathOf(ast, j)) :
        /\ ast[i].kind \in {"ClassDeclaration", "ClassExpression"}
        /\ ast[i].id # NoName}

\* the name the claim gives the callee of call j; NoName when it gives none
ResolvedName(j) ==
    CASE ast[j].callee = "Identifier" -> ast[j].id
      [] ast[j].callee = "IdentMember" -> Dotted(ast[j].obj, ast[j].id)
      [] ast[j].callee = "ThisMember" ->
            IF NamedClassesAround(j) = {} THEN NoName
            ELSE Dotted(ast[Max(NamedClassesAround(j))].id, ast[j].id)
      [] OTHER -> NoName

RecordsOf(j) == {k \in DOMAIN calls : calls[k].site = j}

\* C16: for a call in the body of a method or function with a name, this.m()
\* resolves to "<Class>.m" for the nearest enclosing named class declaration
\* or expression, obj.m() to "obj.m" and f() to "f"; the call has exactly
\* one record, from the enclosing function to the resolved name, when that
\* name is among the function names, and none otherwise.
C16_CalleeResolution ==
    TraversalDone =>
        \A j \in DOMAIN ast :
            (IsCall(ast[j]) /\ InNamedFunction(j)) =>
                IF ResolvedName(j) # NoName /\ ResolvedName(j) \in Range(functionNames)
                THEN /\ Cardinality(RecordsOf(j)) = 1
                     /\ \A k \in RecordsOf(j) :
                           /\ calls[k].callee = ResolvedName(j)
                           /\ calls[k].caller = getFunctionName(ast, ParentOf(ast, j))
                ELSE RecordsOf(j) = {}

\* class C { f() { this.g(); } g() {} } has the single record C.f -> C.g
C16_Witness ==
    /\ TraversalDone
    /\ ast = <<Node("ClassDeclaration", <<"C">>, NoName, "", NoName, 1),
               Node("ClassMethod", <<"f">>, NoName, "", NoName, 2),
               Node("CallExpression", <<"g">>, NoName, "ThisMember", NoName, 3),
               Node("ClassMethod", <<"g">>, NoName, "", NoName, 2)>>
    /\ calls = <<[caller |-> <<"C", ".", "f">>, callee |-> <<"C", ".", "g">>,
                  site |-> 3]>>

----------------------------------------------------------------------------
(* Claims about createFunctionNode *)

\* C17: the node kind is chosen by priority: a name with a '.' gives the
\* class-method kind, else exported gives the exported kind, else async the
\* async kind, else the plain function kind; data.isExported and
\* data.isAsync are the record's flags whatever the kind.
C17_KindPriority ==
    nodePc = "done" =>
        /\ Includes(nodeArgument.name, ".") =>
              functionNode.type = NODE_TYPES.CLASS_METHOD
        /\ (~Includes(nodeArgument.name, ".") /\ nodeArgument.exported) =>
              functionNode.type = NODE_TYPES.EXPORTED
        /\ (~Includes(nodeArgument.name, ".") /\ ~nodeArgument.exported
              /\ nodeArgument.async) =>
              functionNode.type = NODE_TYPES.ASYNC
        /\ (~Includes(nodeArgument.name, ".") /\ ~nodeArgument.exported
              /\ ~nodeArgument.async) =>
              functionNode.type = NODE_TYPES.FUNCTION
        /\ functionNode.data.isExported = nodeArgument.exported
        /\ functionNode.data.isAsync = nodeArgument.async

\* the node of an exported async method: the kind is class-method and both
\* flags are kept
C17_Witness ==
    /\ nodePc = "done"
    /\ Includes(nodeArgument.name, ".")
    /\ nodeArgument.exported
    /\ nodeArgument.async
    /\ functionNode.type = NODE_TYPES.CLASS_METHOD
    /\ functionNode.data.isExported
    /\ functionNode.data.isAsync

\* twice the score before rounding: 2 * (1 + 0.5 * parameters + ...)
TwiceRawScore ==
    2 + Len(nodeArgument.parameters)
      + (IF \E i \in DOMAIN nodeArgument.returnType :
               nodeArgument.returnType[i] \in {"|", "&"} THEN 2 ELSE 0)
      + (IF nodeArgument.async THEN 2 ELSE 0)
      + (IF \E i \in DOMAIN nodeArgument.name : nodeArgument.name[i] = "." THEN 1 ELSE 0)

\* C18: the complexity of a node is min(10, ceil(1 + 0.5 * parameterCount
\* + (1 if the return type has '|' or '&') + (1 if async) + (0.5 if the name
\* has a '.'))), an integer from 1 to 10.
C18_ComplexityScore ==
    nodePc = "done" =>
        LET score == functionNode.data.complexity
        IN  /\ score \in 1..10
            /\ \E ceil \in 1..TwiceRawScore :
                  /\ 2 * ceil >= TwiceRawScore
                  /\ 2 * (ceil - 1) < TwiceRawScore
                  /\ score = IF ceil > 10 THEN 10 ELSE ceil

\* a method with one parameter: 1 + 0.5 + 0.5 = 2 exactly; and, in another
\* run, a score that is rounded up or cut at 10
C18_Witness ==
    /\ nodePc = "done"
    /\ \/ TwiceRawScore % 2 = 1 /\ functionNode.data.complexity * 2 = TwiceRawScore + 1
       \/ TwiceRawScore > 20 /\ functionNode.data.complexity = 10

----------------------------------------------------------------------------
(* Claims about concurrent analysis requests *)

\* C19: the tracker belongs to one invocation of extractFunctionCalls and is
\* null when the invocation starts its traversal; however the steps of two
\* invocations interleave, each returns the records it returns when it runs
\* alone.
C19_RequestsDoNotInterfere ==
    \A r \in Requests :
        /\ (reqPc[r] = "traversing" /\ reqIdx[r] = 1 /\ reqOpen[r] = <<>>) =>
              trackers[r] = NoName
        /\ reqPc[r] = "done" =>
              reqCalls[r] = extractFunctionCalls(reqAst[r], extractFunctions(reqAst[r]))

\* the first request is at a top-level call, which it does not record, while
\* the second is inside a function it tracks
C19_Witness ==
    /\ reqPc[1] = "traversing"
    /\ reqPc[2] = "traversing"
    /\ trackers[2] = <<"f">>
    /\ trackers[1] = NoName
    /\ reqIdx[1] > 1
    /\ IsCall(reqAst[1][1])
    /\ calledFunction(reqAst[1], 1) \in Range(extractFunctions(reqAst[1]))
    /\ reqCalls[1] = <<>>

----------------------------------------------------------------------------
(* Claims about autoLayout *)

AutoLayoutCalled == layoutEntry \in {"autoLayout", "autoLayoutDagre"}

\* what autoLayout returns for fewer than two nodes: the input, and the one
\* node moved to (200, 200) with nothing else about it changed
SmallGraphUntouched ==
    /\ Len(layoutInput.nodes) = 0 => layoutOutput = layoutInput.nodes
    /\ Len(layoutInput.nodes) = 1 =>
          layoutOutput = <<[layoutInput.nodes[1] EXCEPT
                               !.position = [x |-> 200, y |-> 200]]>>

GridApplied ==
    \E layoutId \in LayoutIds :
        layoutOutput = createMatrixLayout(layoutInput.nodes, layoutInput.edges,
                                          5, layoutId)

----------------------------------------------------------------------------
(* POST /api/parse-code.  The handler awaits the body, the fetch and the   *)
(* parse, but the only state requests share is rateLimitMap, which is read *)
(* and written by checkRateLimit before the first await; one action is one *)
(* request, from its arrival to its answer.                                *)

\* 60 * 1000
RATE_LIMIT_WINDOW == 60000

RATE_LIMIT_MAX == 10

\* the values Date.now() takes
ClockValues == {0, RATE_LIMIT_WINDOW, RATE_LIMIT_WINDOW + 1}

Space == " "

\* String.prototype.trim
RECURSIVE TrimStart(_)
TrimStart(s) ==
    IF s # <<>> /\ Head(s) = Space THEN TrimStart(Tail(s)) ELSE s

RECURSIVE TrimEnd(_)
TrimEnd(s) ==
    IF s # <<>> /\ s[Len(s)] = Space THEN TrimEnd(SubSeq(s, 1, Len(s) - 1)) ELSE s

Trim(s) == TrimEnd(TrimStart(s))

Unknown == <<"u", "n", "k", "n", "o", "w", "n">>

\* a header that is not sent is <<>>, a header that is sent is <<value>>;
\* an empty value is falsy like a missing header
HeaderSet(header) == header # <<>> /\ header[1] # <<>>

getClientIP(request) ==
    IF HeaderSet(request.forwarded)
    THEN Trim(Split(request.forwarded[1], <<",">>)[1])
    ELSE IF HeaderSet(request.realIP)
    THEN request.realIP[1]
    ELSE Unknown

\* Map.prototype.set
MapSet(map, key, value) ==
    [k \in DOMAIN map \cup {key} |-> IF k = key THEN value ELSE map[k]]

\* a mutant of checkRateLimit: the window is also reset at resetTime itself
checkRateLimit_ResetAtResetTime(map, clientIP, clock) ==
    IF clientIP \notin DOMAIN map \/ clock >= map[clientIP].resetTime
    THEN [allowed |-> TRUE,
          map |-> MapSet(map, clientIP,
                         [count |-> 1, resetTime |-> clock + RATE_LIMIT_WINDOW])]
    ELSE IF map[clientIP].count >= RATE_LIMIT_MAX
    THEN [allowed |-> FALSE, map |-> map]
    ELSE [allowed |-> TRUE,
          map |-> [map EXCEPT ![clientIP].count = @ + 1]]

\* checkRateLimit: its return value and the map it leaves
checkRateLimit(map, clientIP, clock) ==
    IF clientIP \notin DOMAIN map
    THEN [allowed |-> TRUE,
          map |-> MapSet(map, clientIP,
                         [count |-> 1, resetTime |-> clock + RATE_LIMIT_WINDOW])]
    ELSE IF clock > map[clientIP].resetTime
    THEN [allowed |-> TRUE,
          map |-> MapSet(map, clientIP,
                         [count |-> 1, resetTime |-> clock + RATE_LIMIT_WINDOW])]
    ELSE IF map[clientIP].count >= RATE_LIMIT_MAX
    THEN [allowed |-> FALSE, map |-> map]
    ELSE [allowed |-> TRUE,
          map |-> [map EXCEPT ![clientIP].count = @ + 1]]

\* the error types of a parse outcome
SyntaxErrors(outcome) ==
    SelectSeq(outcome.errors, LAMBDA type : type = "syntax")

\* a response, with what the handler did for it: the calls it made, the
\* parse outcome it received, the call that threw, and when it started
Answer(httpStatus, message, steps, client, outcome, thrown, startTime) ==
    [status |-> httpStatus, error |-> message, steps |-> steps, client |-> client,
     parseResult |-> outcome, thrown |-> thrown, startTime |-> startTime]

\* a mutant of POST: an outcome without functions is answered like a success
POST_EmptyIsSuccess(request, map, clock) ==
    LET clientIP == getClientIP(request)
        limit == checkRateLimit(map, clientIP, clock)
        A(httpStatus, message, steps, outcome, thrown) ==
            [response |-> Answer(httpStatus, message, <<"checkRateLimit">> \o steps,
                                 clientIP, outcome, thrown, clock),
             map |-> limit.map]
        seen == [request.parse EXCEPT !.reached = TRUE]
    IN  IF ~limit.allowed
        THEN A(429, "Rate limit exceeded. Please try again later.", <<>>, NoParseResult, "")
        ELSE IF request.body = "invalid JSON"
        THEN A(400, "Invalid JSON in request body", <<"request.json">>, NoParseResult, "")
        ELSE IF request.body = "no url"
        THEN A(400, "URL is required in request body", <<"request.json">>, NoParseResult, "")
        ELSE IF request.body = "invalid url"
        THEN A(400, "Invalid URL", <<"request.json", "validateURL">>, NoParseResult, "")
        ELSE IF request.fetch = "throws"
        THEN A(500, "Internal server error occurred while parsing code",
               <<"request.json", "validateURL", "fetchCodeFromURL">>, NoParseResult, "fetchCodeFromURL")
        ELSE IF request.fetch = "fails"
        THEN A(400, "Failed to fetch code",
               <<"request.json", "validateURL", "fetchCodeFromURL">>, NoParseResult, "")
        ELSE IF request.parseThrows
        THEN A(500, "Internal server error occurred while parsing code",
               <<"request.json", "validateURL", "fetchCodeFromURL",
                 "parseTypeScriptCode">>, NoParseResult, "parseTypeScriptCode")
        ELSE IF SyntaxErrors(request.parse) # <<>>
        THEN A(400, "Failed to parse TypeScript code",
               <<"request.json", "validateURL", "fetchCodeFromURL",
                 "parseTypeScriptCode">>, seen, "")
        ELSE IF request.buildThrows
        THEN A(500, "Internal server error occurred while parsing code",
               <<"request.json", "validateURL", "fetchCodeFromURL",
                 "parseTypeScriptCode", "buildReactFlowGraph">>, seen, "buildReactFlowGraph")
        ELSE A(200, "",
               <<"request.json", "validateURL", "fetchCodeFromURL",
                 "parseTypeScriptCode", "buildReactFlowGraph">>, seen, "")

\* POST: the answer to request and the map it leaves.  steps lists the calls
\* the handler made, in order.
POST(request, map, clock) ==
    LET clientIP == getClientIP(request)
        limit == checkRateLimit(map, clientIP, clock)
        A(httpStatus, message, steps, outcome, thrown) ==
            [response |-> Answer(httpStatus, message, <<"checkRateLimit">> \o steps,
                                 clientIP, outcome, thrown, clock),
             map |-> limit.map]
        seen == [request.parse EXCEPT !.reached = TRUE]
    IN  IF ~limit.allowed
        THEN A(429, "Rate limit exceeded. Please try again later.", <<>>, NoParseResult, "")
        ELSE IF request.body = "invalid JSON"
        THEN A(400, "Invalid JSON in request body", <<"request.json">>, NoParseResult, "")
        ELSE IF request.body = "no url"
        THEN A(400, "URL is required in request body", <<"request.json">>, NoParseResult, "")
        ELSE IF request.body = "invalid url"
        THEN A(400, "Invalid URL", <<"request.json", "validateURL">>, NoParseResult, "")
        ELSE IF request.fetch = "throws"
        THEN A(500, "Internal server error occurred while parsing code",
               <<"request.json", "validateURL", "fetchCodeFromURL">>, NoParseResult, "fetchCodeFromURL")
        ELSE IF request.fetch = "fails"
        THEN A(400, "Failed to fetch code",
               <<"request.json", "validateURL", "fetchCodeFromURL">>, NoParseResult, "")
        ELSE IF request.parseThrows
        THEN A(500, "Internal server error occurred while parsing code",
               <<"request.json", "validateURL", "fetchCodeFromURL",
                 "parseTypeScriptCode">>, NoParseResult, "parseTypeScriptCode")
        ELSE IF SyntaxErrors(request.parse) # <<>>
        THEN A(400, "Failed to parse TypeScript code",
               <<"request.json", "validateURL", "fetchCodeFromURL",
                 "parseTypeScriptCode">>, seen, "")
        ELSE IF Len(request.parse.functions) = 0
        THEN A(400, "No functions found in the provided TypeScript file",
               <<"request.json", "validateURL", "fetchCodeFromURL",
                 "parseTypeScriptCode">>, seen, "")
        ELSE IF request.buildThrows
        THEN A(500, "Internal server error occurred while parsing code",
               <<"request.json", "validateURL", "fetchCodeFromURL",
                 "parseTypeScriptCode", "buildReactFlowGraph">>, seen, "buildReactFlowGraph")
        ELSE A(200, "",
               <<"request.json", "validateURL", "fetchCodeFromURL",
                 "parseTypeScriptCode", "buildReactFlowGraph">>, seen, "")

----------------------------------------------------------------------------
(* The requests sent to the route *)

\* the x-forwarded-for and x-real-ip headers of a request
ForwardedHeaders == {<<>>, << <<"a">> >>, << <<" ", "a", ",", " ", "b">> >>}

RealIPHeaders == {<<>>, << <<"a">> >>}

Headers ==
    {[forwarded |-> h[1], realIP |-> h[2]] : h \in ForwardedHeaders \X RealIPHeaders}

\* what parseTypeScriptCode resolves to
ParseOutcomes ==
    {[errors |-> e, functions |-> f, reached |-> FALSE] :
        e \in {<<>>, <<"syntax">>, <<"validation">>},
        f \in {<<>>, << <<"f">> >>}}

\* does the handler reach buildReactFlowGraph with this outcome
Buildable(o) == "syntax" \notin Range(o.errors) /\ o.functions # <<>>

\* what the awaited calls do for a request; a call that is not reached does
\* nothing
Stage(body, fetch, parse, parseThrows, buildThrows) ==
    [body |-> body, fetch |-> fetch, parse |-> parse, parseThrows |-> parseThrows,
     buildThrows |-> buildThrows]

Stages ==
      {Stage(b, "ok", NoParseResult, FALSE, FALSE) :
          b \in {"invalid JSON", "no url", "invalid url"}}
 \cup {Stage("valid url", f, NoParseResult, FALSE, FALSE) : f \in {"fails", "throws"}}
 \cup {Stage("valid url", "ok", NoParseResult, TRUE, FALSE)}
 \cup {Stage("valid url", "ok", o, FALSE, FALSE) : o \in ParseOutcomes}
 \cup {Stage("valid url", "ok", o, FALSE, TRUE) :
          o \in {q \in ParseOutcomes : Buildable(q)}}

\* the requests of a client that polls one file which parses
PollingStages ==
    {Stage("valid url", "ok",
           [errors |-> <<>>, functions |-> << <<"f">> >>, reached |-> FALSE],
           FALSE, FALSE)}

HttpRequest(header, stage) ==
    [forwarded |-> header.forwarded, realIP |-> header.realIP, body |-> stage.body,
     fetch |-> stage.fetch, parse |-> stage.parse,
     parseThrows |-> stage.parseThrows, buildThrows |-> stage.buildThrows]

\* requests admitted in one behaviour
MaxPosts == 3

MaxPolls == 12

RouteInit ==
    /\ now = 0
    /\ rateLimitMap = <<>>
    /\ admitted = <<>>
    /\ response = NoResponse
    /\ ast = <<>>
    /\ functionNames = <<>>
    /\ idx = 1
    /\ open = <<>>
    /\ currentFunction = NoName
    /\ calls = <<>>
    /\ code = IdleCode
    /\ pc = "idle"
    /\ attempts = <<>>
    /\ parsed = NoTree
    /\ result = EmptyResult
    /\ edgeCalls = <<>>
    /\ edges = <<>>
    /\ edgePc = "idle"
    /\ parsedData = NoParsedData
    /\ graph = NoGraph
    /\ graphAgain = NoGraph
    /\ graphPc = "idle"
    /\ layoutInput = NoGraph
    /\ layoutOutput = <<>>
    /\ layoutEntry = "idle"
    /\ transformInput = NoGraph
    /\ transformFilter = NoFilter
    /\ transformOutput = NoGraph
    /\ transformEntry = "idle"
    /\ visitedPaths = <<>>
    /\ extracted = <<>>
    /\ extractPc = "idle"
    /\ nodeArgument = NoFunctionData
    /\ functionNode = NoNode
    /\ nodePc = "idle"
    /\ reqAst = <<>>
    /\ reqIdx = <<>>
    /\ reqOpen = <<>>
    /\ trackers = <<>>
    /\ reqCalls = <<>>
    /\ reqPc = <<>>
    /\ urlInput = InitialInput
    /\ home = InitialHome
    /\ run = NoRun
    /\ reported = <<>>
    /\ analyzed = <<>>
    /\ parseRequest = "none"
    /\ afterReset = FALSE
    /\ activations = 0

\* the times at which requests of clientIP passed checkRateLimit
AdmittedOf(history, clientIP) ==
    IF clientIP \in DOMAIN history THEN history[clientIP] ELSE <<>>

RECURSIVE SumOfLens(_, _)
SumOfLens(history, keys) ==
    IF keys = {} THEN 0
    ELSE LET k == CHOOSE x \in keys : TRUE
         IN  Len(history[k]) + SumOfLens(history, keys \ {k})

TotalAdmitted == SumOfLens(admitted, DOMAIN admitted)

\* one request arrives and is answered
Answered(request) ==
    LET out == POST(request, rateLimitMap, now)
        clientIP == out.response.client
    IN  /\ response' = out.response
        /\ rateLimitMap' = out.map
        /\ admitted' =
               IF out.response.status = 429 THEN admitted
               ELSE MapSet(admitted, clientIP,
                           Append(AdmittedOf(admitted, clientIP), now))
        /\ UNCHANGED now
        /\ UNCHANGED notRouteVars

\* a request of any kind
Post ==
    /\ TotalAdmitted < MaxPosts
    /\ \E header \in Headers : \E stage \in Stages :
          Answered(HttpRequest(header, stage))

\* a request of a polling client
Poll ==
    /\ TotalAdmitted < MaxPolls
    /\ \E header \in Headers : \E stage \in PollingStages :
          Answered(HttpRequest(header, stage))

\* time passes
Tick ==
    /\ \E t \in ClockValues : t > now /\ now' = t
    /\ UNCHANGED <<rateLimitMap, admitted, response>>
    /\ UNCHANGED notRouteVars

RouteNext ==
    \/ Post
    \/ Tick

SpecRoute == RouteInit /\ [][RouteNext]_vars

RateLimitNext ==
    \/ Poll
    \/ Tick

SpecRateLimit == RouteInit /\ [][RateLimitNext]_vars

----------------------------------------------------------------------------
(* Claims about POST /api/parse-code *)

BuiltGraph == "buildReactFlowGraph" \in Range(response.steps)

HasSyntaxError(outcome) == "syntax" \in Range(outcome.errors)

\* C21: the route builds the graph and answers 200 only when the parse
\* outcome has no syntax error and at least one function; an outcome with a
\* syntax error is answered 400 'Failed to parse TypeScript code', an outcome
\* without syntax errors and without functions is answered 400 'No functions
\* found', and an exception thrown by the parser or the graph builder is
\* answered 500.
C21_AnswerFollowsParseOutcome ==
    /\ (BuiltGraph \/ response.status = 200) =>
          /\ response.parseResult.reached
          /\ ~HasSyntaxError(response.parseResult)
          /\ response.parseResult.functions # <<>>
    /\ response.status = 200 => BuiltGraph /\ response.thrown = ""
    /\ (response.parseResult.reached /\ HasSyntaxError(response.parseResult)) =>
          /\ response.status = 400
          /\ response.error = "Failed to parse TypeScript code"
    /\ (/\ response.parseResult.reached
        /\ ~HasSyntaxError(response.parseResult)
        /\ response.parseResult.functions = <<>>) =>
          /\ response.status = 400
          /\ response.error = "No functions found in the provided TypeScript file"
    /\ response.thrown \in {"parseTypeScriptCode", "buildReactFlowGraph"} =>
          response.status = 500

\* a file that was fetched and parsed without a syntax error, in which no
\* function was found, has been turned down
C21_Witness ==
    /\ response.parseResult.reached
    /\ response.parseResult.errors = <<"validation">>
    /\ response.parseResult.functions = <<>>
    /\ response.status = 400
    /\ ~BuiltGraph

\* the requests of clientIP admitted from time `from` on, less than a window
\* later
AdmittedWithin(times, from) ==
    {k \in DOMAIN times : from <= times[k] /\ times[k] < from + RATE_LIMIT_WINDOW}

TurnedAwayEarly ==
    response.status = 429 => response.steps = <<"checkRateLimit">>

\* C22 as stated: for each client IP at most 10 requests are admitted within
\* any 60-second interval, and every further request in the interval is
\* answered 429 before its body is read or a fetch or parse is started.
C22_TenPerAnyInterval ==
    /\ \A clientIP \in DOMAIN admitted : \A i \in DOMAIN admitted[clientIP] :
          Cardinality(AdmittedWithin(admitted[clientIP], admitted[clientIP][i]))
              <= RATE_LIMIT_MAX
    /\ TurnedAwayEarly

\* the windows of a client: a window opens with the first request that comes
\* after the previous window, and covers the requests up to RATE_LIMIT_WINDOW
\* milliseconds after it
RECURSIVE Windows(_)
Windows(times) ==
    IF times = <<>> THEN <<>>
    ELSE LET inside == SelectSeq(times, LAMBDA t : t <= times[1] + RATE_LIMIT_WINDOW)
         IN  <<inside>> \o Windows(SubSeq(times, Len(inside) + 1, Len(times)))

\* C22, amended: for each client IP at most 10 requests are admitted within
\* each rate-limit window, which opens with the first request the client
\* sends after its previous window and covers the 60 seconds after that
\* request; every further request in that window is answered 429 before its
\* body is read or a fetch or parse is started.
C22_TenPerWindow ==
    /\ \A clientIP \in DOMAIN admitted :
          LET windows == Windows(admitted[clientIP])
          IN  \A w \in DOMAIN windows : Len(windows[w]) <= RATE_LIMIT_MAX
    /\ TurnedAwayEarly

\* a client whose window opened with one request and was used up a minute
\* later is turned away
C22_Witness ==
    /\ response.status = 429
    /\ LET times == AdmittedOf(admitted, response.client)
       IN  /\ Len(times) = RATE_LIMIT_MAX
           /\ times[1] # times[2]
           /\ response.startTime = times[1] + RATE_LIMIT_WINDOW

----------------------------------------------------------------------------
(* Claims about the caller of a CallRecord *)

\* the function-like nodes around node j that getFunctionName resolves
NamedFunctionsAround(j) ==
    {a \in Range(PathOf(ast, j)) :
        a # j /\ IsFunctionLike(ast[a]) /\ getFunctionName(ast, a) # NoName}

\* C23: the caller of every CallRecord is the name of the innermost
\* function-like node around the call site that has a resolvable name; a call
\* inside an unnamed function expression or arrow function is attributed to
\* the nearest named function around it, and no call is attributed to a
\* function that does not enclose it.
C23_CallerIsInnermostNamedFunction ==
    \A k \in DOMAIN calls :
        LET around == NamedFunctionsAround(calls[k].site)
        IN  /\ around # {}
            /\ calls[k].caller = getFunctionName(ast, Max(around))

\* a record of a call that sits in an unnamed function inside a named one
C23_Witness ==
    \E k \in DOMAIN calls :
        LET parent == ParentOf(ast, calls[k].site)
        IN  /\ parent # 0
            /\ IsFunctionLike(ast[parent])
            /\ getFunctionName(ast, parent) = NoName
            /\ NamedFunctionsAround(calls[k].site) # {}

----------------------------------------------------------------------------
\* C24: an error of type 'syntax' is in the outcome of parseTypeScriptCode
\* only if all three parse attempts failed; a fault raised by the extraction
\* of functions, calls or metadata after a successful parse is not reported
\* as a 'syntax' error.
C24_SyntaxOnlyAfterThreeFailures ==
    (Returned /\ \E k \in DOMAIN result.errors : result.errors[k].type = "syntax")
        => AllThreeFailed

----------------------------------------------------------------------------
(* Claims about the edges of a built graph *)

FunctionNames(data) == {data.functions[i].name : i \in DOMAIN data.functions}

CallsBetweenFunctions(data) ==
    \A k \in DOMAIN data.calls :
        /\ data.calls[k].caller \in FunctionNames(data)
        /\ data.calls[k].callee \in FunctionNames(data)

\* the result has the node built from the function called name, under id
HasNodeOf(graphData, name, id) ==
    \E n \in DOMAIN graphData.nodes :
        /\ ~graphData.nodes[n].data.isHeader
        /\ graphData.nodes[n].data.label = name
        /\ graphData.nodes[n].id = id

\* C25: in the graph returned by buildReactFlowGraph, when the caller and the
\* callee of every call are names of records in functions, the source of
\* each edge is the id of the node built from the caller and its target the
\* id of the node built from the callee, so no edge refers to a node id that
\* is absent from the result.
C25_EdgesJoinBuiltNodes ==
    (graphPc \in {"built", "rebuilt"} /\ CallsBetweenFunctions(parsedData)) =>
        \A e \in DOMAIN graph.edges :
            /\ \E k \in DOMAIN parsedData.calls :
                  /\ HasNodeOf(graph, parsedData.calls[k].caller, graph.edges[e].source)
                  /\ HasNodeOf(graph, parsedData.calls[k].callee, graph.edges[e].target)
            /\ graph.edges[e].source \in {graph.nodes[n].id : n \in DOMAIN graph.nodes}
            /\ graph.edges[e].target \in {graph.nodes[n].id : n \in DOMAIN graph.nodes}

\* a built graph with an edge from a method, whose id is not its name, to a
\* function, laid out with section headers
C25_Witness ==
    /\ graphPc = "built"
    /\ \E e \in DOMAIN graph.edges : \E k \in DOMAIN parsedData.calls :
          /\ graph.edges[e].source # parsedData.calls[k].caller
          /\ HasNodeOf(graph, parsedData.calls[k].caller, graph.edges[e].source)
          /\ graph.edges[e].target # graph.edges[e].source
    /\ \E n \in DOMAIN graph.nodes : graph.nodes[n].data.isHeader

----------------------------------------------------------------------------
(* The Home page and its URLInput.  A handler runs up to its first await *)
(* in one step; what follows the await is the step of the settled call.  *)

\* what the user types into the input
UrlTexts ==
    {Url("", FALSE, "", ""),
     Url(" ", FALSE, "", ""),
     Url("not a url", FALSE, "", ""),
     Url("ftp://example.com/a.ts", TRUE, "ftp:", ".ts"),
     Url("https://example.com/readme.md", TRUE, "https:", ".md"),
     Url("https://example.com/test.ts", TRUE, "https:", ".ts"),
     Url("http://example.com/App.tsx", TRUE, "http:", ".tsx")}

\* url.trim() on these texts
TrimOf(url) == IF url.text = " " THEN "" ELSE url.text

SUPPORTED_EXTENSIONS == {".ts", ".tsx"}

\* validateURL: isValid and error
validateURL(url) ==
    IF url.text = "" THEN [isValid |-> FALSE, error |-> "URL is required"]
    ELSE IF TrimOf(url) = "" THEN [isValid |-> FALSE, error |-> "URL cannot be empty"]
    ELSE IF ~url.parses THEN [isValid |-> FALSE, error |-> "Invalid URL format"]
    ELSE IF url.protocol \notin {"http:", "https:"}
    THEN [isValid |-> FALSE, error |-> "Only HTTP and HTTPS URLs are supported"]
    ELSE IF url.extension \notin SUPPORTED_EXTENSIONS
    THEN [isValid |-> FALSE, error |-> "Unsupported file type"]
    ELSE [isValid |-> TRUE, error |-> Null]

\* validateUrlInput: its return value and the error it sets
validateUrlInput(inputUrl) ==
    IF TrimOf(inputUrl) = "" THEN [valid |-> FALSE, error |-> Null]
    ELSE IF ~validateURL(inputUrl).isValid
    THEN [valid |-> FALSE, error |-> validateURL(inputUrl).error]
    ELSE [valid |-> TRUE, error |-> Null]

\* disabled of the input: disabled || (status !== 'idle' && status !== 'error')
InputDisabled == urlInput.status \notin {"idle", "error"}

\* isAnalyzeDisabled
isAnalyzeDisabled ==
    TrimOf(urlInput.url) = "" \/ urlInput.status \notin {"idle", "error"}

\* what fetchCodeFromURL and the fetch of /api/parse-code can do
Settlements == {"success", "failure", "throws"}

\* activations of the Analyze button in one behaviour
MaxActivations == 3

PageInit ==
    /\ urlInput = InitialInput
    /\ home = InitialHome
    /\ run = NoRun
    /\ reported = <<>>
    /\ analyzed = <<>>
    /\ parseRequest = "none"
    /\ afterReset = FALSE
    /\ activations = 0
    /\ ast = <<>>
    /\ functionNames = <<>>
    /\ idx = 1
    /\ open = <<>>
    /\ currentFunction = NoName
    /\ calls = <<>>
    /\ code = IdleCode
    /\ pc = "idle"
    /\ attempts = <<>>
    /\ parsed = NoTree
    /\ result = EmptyResult
    /\ edgeCalls = <<>>
    /\ edges = <<>>
    /\ edgePc = "idle"
    /\ parsedData = NoParsedData
    /\ graph = NoGraph
    /\ graphAgain = NoGraph
    /\ graphPc = "idle"
    /\ layoutInput = NoGraph
    /\ layoutOutput = <<>>
    /\ layoutEntry = "idle"
    /\ transformInput = NoGraph
    /\ transformFilter = NoFilter
    /\ transformOutput = NoGraph
    /\ transformEntry = "idle"
    /\ visitedPaths = <<>>
    /\ extracted = <<>>
    /\ extractPc = "idle"
    /\ nodeArgument = NoFunctionData
    /\ functionNode = NoNode
    /\ nodePc = "idle"
    /\ reqAst = <<>>
    /\ reqIdx = <<>>
    /\ reqOpen = <<>>
    /\ trackers = <<>>
    /\ reqCalls = <<>>
    /\ reqPc = <<>>
    /\ now = 0
    /\ rateLimitMap = <<>>
    /\ admitted = <<>>
    /\ response = NoResponse

\* handleUrlChange
HandleUrlChange ==
    /\ ~InputDisabled
    /\ \E newUrl \in UrlTexts \ {urlInput.url} :
          urlInput' = [urlInput EXCEPT !.url = newUrl,
                                       !.error = validateUrlInput(newUrl).error]
    /\ UNCHANGED <<home, run, reported, analyzed, parseRequest, afterReset, activations>>
    /\ UNCHANGED notPageVars

\* handleAnalyze of URLInput up to `await fetchCodeFromURL(url)`; each
\* updateStatus also runs handleStatusChange of Home
handleAnalyze ==
    IF TrimOf(urlInput.url) = "" \/ urlInput.status # "idle"
    THEN UNCHANGED <<urlInput, home, run, reported, analyzed, parseRequest, afterReset>>
    ELSE IF ~validateUrlInput(urlInput.url).valid
    THEN /\ urlInput' = [urlInput EXCEPT !.status = "error",
                             !.error = validateUrlInput(urlInput.url).error]
         /\ reported' = reported \o <<"validating", "error">>
         /\ home' = [home EXCEPT !.analysisStatus = "error"]
         /\ run' = [at |-> "done", validation |-> "failed", fetch |-> "none"]
         /\ afterReset' = FALSE
         /\ UNCHANGED <<analyzed, parseRequest>>
    ELSE /\ urlInput' = [urlInput EXCEPT !.status = "fetching", !.error = Null]
         /\ reported' = reported \o <<"validating", "fetching">>
         /\ home' = [home EXCEPT !.analysisStatus = "fetching"]
         /\ run' = [at |-> "fetching", validation |-> "passed", fetch |-> "pending"]
         /\ afterReset' = FALSE
         /\ UNCHANGED <<analyzed, parseRequest>>

\* the Analyze button is activated: onClick={handleAnalyze}
ClickAnalyze ==
    /\ ~isAnalyzeDisabled
    /\ activations < MaxActivations
    /\ activations' = activations + 1
    /\ handleAnalyze
    /\ UNCHANGED notPageVars

\* handleKeyDown with the Enter key
PressEnter ==
    /\ ~InputDisabled
    /\ urlInput.status = "idle"
    /\ handleAnalyze
    /\ UNCHANGED activations
    /\ UNCHANGED notPageVars

\* a mutant of FetchSettles: onAnalyze is called before 'complete' is reported
FetchSettles_AnalyzeFirst ==
    /\ run.at = "fetching"
    /\ \E outcome \in Settlements :
          /\ run' = [run EXCEPT !.at = "done", !.fetch = outcome]
          /\ IF outcome = "success"
             THEN /\ urlInput' = [urlInput EXCEPT !.status = "complete"]
                  /\ reported' = Append(reported, "complete")
                  /\ analyzed' = Append(analyzed,
                         [success |-> TRUE, url |-> urlInput.url.text, after |-> reported])
                  /\ home' = [analysisResult |-> urlInput.url.text, parseResult |-> Null,
                              parseError |-> Null, analysisStatus |-> "parsing"]
                  /\ parseRequest' = "pending"
             ELSE /\ urlInput' = [urlInput EXCEPT !.status = "error", !.error = outcome]
                  /\ reported' = Append(reported, "error")
                  /\ home' = [home EXCEPT !.analysisStatus = "error"]
                  /\ UNCHANGED <<analyzed, parseRequest>>
    /\ UNCHANGED <<afterReset, activations>>
    /\ UNCHANGED notPageVars

\* fetchCodeFromURL settles and handleAnalyze of URLInput goes on; on success
\* onAnalyze runs handleAnalyze of Home up to its `await fetch(...)`
FetchSettles ==
    /\ run.at = "fetching"
    /\ \E outcome \in Settlements :
          /\ run' = [run EXCEPT !.at = "done", !.fetch = outcome]
          /\ IF outcome = "success"
             THEN /\ urlInput' = [urlInput EXCEPT !.status = "complete"]
                  /\ reported' = Append(reported, "complete")
                  /\ analyzed' = Append(analyzed,
                         [success |-> TRUE, url |-> urlInput.url.text,
                          after |-> Append(reported, "complete")])
                  /\ home' = [analysisResult |-> urlInput.url.text, parseResult |-> Null,
                              parseError |-> Null, analysisStatus |-> "parsing"]
                  /\ parseRequest' = "pending"
             ELSE /\ urlInput' = [urlInput EXCEPT !.status = "error", !.error = outcome]
                  /\ reported' = Append(reported, "error")
                  /\ home' = [home EXCEPT !.analysisStatus = "error"]
                  /\ UNCHANGED <<analyzed, parseRequest>>
    /\ UNCHANGED <<afterReset, activations>>
    /\ UNCHANGED notPageVars

\* the request to /api/parse-code settles and handleAnalyze of Home goes on
ParseSettles ==
    /\ parseRequest = "pending"
    /\ \E outcome \in Settlements :
          home' = IF outcome = "success"
                  THEN [home EXCEPT !.parseResult = "data", !.analysisStatus = "complete"]
                  ELSE [home EXCEPT !.parseError = outcome, !.analysisStatus = "error"]
    /\ parseRequest' = "settled"
    /\ UNCHANGED <<urlInput, run, reported, analyzed, afterReset, activations>>
    /\ UNCHANGED notPageVars

\* handleReset, behind the button shown while analysisResult is set
HandleReset ==
    /\ home.analysisResult # Null
    /\ home' = InitialHome
    /\ afterReset' = TRUE
    /\ UNCHANGED <<urlInput, run, reported, analyzed, parseRequest, activations>>
    /\ UNCHANGED notPageVars

PageNext ==
    \/ HandleUrlChange
    \/ ClickAnalyze
    \/ PressEnter
    \/ FetchSettles
    \/ ParseSettles
    \/ HandleReset

SpecPage == PageInit /\ [][PageNext]_vars

----------------------------------------------------------------------------
(* Claims about URLInput and the Home page *)

\* C26: during an analysis run that URLInput starts from status 'idle' the
\* statuses are reported in the order validating, fetching, complete when
\* validation and fetch succeed, validating, error when the validation of the
\* URL fails, and validating, fetching, error when the fetch fails or throws;
\* onAnalyze is called only after 'complete' was reported, and only with a
\* successful fetch result.
C26_StatusesInOrder ==
    /\ run.at = "none" => reported = <<>>
    /\ run.at = "fetching" => reported = <<"validating", "fetching">>
    /\ (run.at = "done" /\ run.validation = "passed" /\ run.fetch = "success") =>
          reported = <<"validating", "fetching", "complete">>
    /\ (run.at = "done" /\ run.validation = "failed") =>
          reported = <<"validating", "error">>
    /\ (run.at = "done" /\ run.fetch \in {"failure", "throws"}) =>
          reported = <<"validating", "fetching", "error">>
    /\ \A k \in DOMAIN analyzed :
          /\ analyzed[k].after # <<>>
          /\ analyzed[k].after[Len(analyzed[k].after)] = "complete"
          /\ analyzed[k].success
          /\ run.fetch = "success"

\* a run that ended with a call of onAnalyze
C26_Witness ==
    /\ run.at = "done"
    /\ Len(analyzed) = 1
    /\ reported = <<"validating", "fetching", "complete">>

\* C27: after a run has ended in status 'error', activating the Analyze
\* button, which is enabled and reads 'Try Again' in that status, starts a
\* new run: the next status reported is 'validating'.
C27_TryAgainStartsRun ==
    [][(urlInput.status = "error" /\ activations' = activations + 1) =>
          /\ Len(reported') > Len(reported)
          /\ reported'[Len(reported) + 1] = "validating"]_vars

\* C28: once handleReset has run, parseResult and parseError stay null and
\* analysisStatus stays 'idle' until a new analysis is started, also when a
\* parse request sent before the reset settles after it.
C28_ResetStaysReset ==
    afterReset =>
        /\ home.parseResult = Null
        /\ home.parseError = Null
        /\ home.analysisStatus = "idle"

----------------------------------------------------------------------------
(* createMatrixLayout on nodes of different sizes *)

\* nodes handed to createMatrixLayout
MaxMatrixNodes == 3

LongName == [i \in 1..45 |-> "a"]

SixParameters == [i \in 1..6 |-> Param(<<"p">>, NumberType)]

\* nodes of createFunctionNode with a short or a long label, without
\* parameters or with six, async or not, exported or not
MatrixPool ==
    {createFunctionNode(FunctionData(name, parameters, VoidType, async, exported)) :
        name \in {<<"f">>, LongName}, parameters \in {<<>>, SixParameters},
        async \in BOOLEAN, exported \in BOOLEAN}

MatrixInit ==
    /\ \E n \in 0..MaxMatrixNodes : \E nodes \in SeqsOfLen(MatrixPool, n) :
          layoutInput = [nodes |-> nodes, edges |-> <<>>]
    /\ layoutOutput = <<>>
    /\ layoutEntry = "ready"
    /\ ast = <<>>
    /\ functionNames = <<>>
    /\ idx = 1
    /\ open = <<>>
    /\ currentFunction = NoName
    /\ calls = <<>>
    /\ code = IdleCode
    /\ pc = "idle"
    /\ attempts = <<>>
    /\ parsed = NoTree
    /\ result = EmptyResult
    /\ edgeCalls = <<>>
    /\ edges = <<>>
    /\ edgePc = "idle"
    /\ parsedData = NoParsedData
    /\ graph = NoGraph
    /\ graphAgain = NoGraph
    /\ graphPc = "idle"
    /\ transformInput = NoGraph
    /\ transformFilter = NoFilter
    /\ transformOutput = NoGraph
    /\ transformEntry = "idle"
    /\ visitedPaths = <<>>
    /\ extracted = <<>>
    /\ extractPc = "idle"
    /\ nodeArgument = NoFunctionData
    /\ functionNode = NoNode
    /\ nodePc = "idle"
    /\ reqAst = <<>>
    /\ reqIdx = <<>>
    /\ reqOpen = <<>>
    /\ trackers = <<>>
    /\ reqCalls = <<>>
    /\ reqPc = <<>>
    /\ urlInput = InitialInput
    /\ home = InitialHome
    /\ run = NoRun
    /\ reported = <<>>
    /\ analyzed = <<>>
    /\ parseRequest = "none"
    /\ afterReset = FALSE
    /\ activations = 0
    /\ now = 0
    /\ rateLimitMap = <<>>
    /\ admitted = <<>>
    /\ response = NoResponse

MatrixNext == CreateMatrixLayout

SpecMatrix == MatrixInit /\ [][MatrixNext]_vars

----------------------------------------------------------------------------
(* Claims about the rectangles of the grid *)

\* the rectangles of two nodes share a point inside both
Overlap(a, b) ==
    /\ a.position.x < b.position.x + b.style.width
    /\ b.position.x < a.position.x + a.style.width
    /\ a.position.y < b.position.y + b.style.height
    /\ b.position.y < a.position.y + a.style.height

\* C29: in the output of createMatrixLayout the rectangles of two distinct
\* function nodes, each the node's position with the width and height
\* computed for it, do not overlap, whatever the number of nodes, the
\* grouping, the label lengths, the parameter counts and the async and
\* exported flags.
C29_GridRectanglesDisjoint ==
    layoutEntry = "createMatrixLayout" =>
        \A i, j \in DOMAIN layoutOutput :
            (i # j /\ ~layoutOutput[i].data.isHeader /\ ~layoutOutput[j].data.isHeader)
                => ~Overlap(layoutOutput[i], layoutOutput[j])

----------------------------------------------------------------------------
(* Claims about applying a transformation to its own output *)

\* C30: filterGraph and simplifyGraph are idempotent: filtering the output
\* of filterGraph again with the same filter returns that output, and
\* simplifying the output of simplifyGraph again returns that output.
C30_TransformsIdempotent ==
    /\ transformEntry = "filterGraph" =>
          filterGraph(transformOutput, transformFilter) = transformOutput
    /\ transformEntry = "simplifyGraph" =>
          simplifyGraph(transformOutput) = transformOutput

\* filterGraph has dropped a node and an edge and kept a node and an edge
C30_Witness ==
    /\ transformEntry = "filterGraph"
    /\ 0 < Len(transformOutput.nodes)
    /\ Len(transformOutput.nodes) < Len(transformInput.nodes)
    /\ 0 < Len(transformOutput.edges)
    /\ Len(transformOutput.edges) < Len(transformInput.edges)
    /\ filterGraph(transformOutput, transformFilter) = transformOutput

=========================================================================
